---- MODULE Spec2Model ----
(***************************************************************************)
(* The e-commerce data lake.                                               *)
(*                                                                         *)
(* Catalog store (src/src/storage/mongo_client.py, class MongoDBStorage):  *)
(* the products collection, the price_history collection, the              *)
(* scraping_logs collection, and the aggregation pipelines run over        *)
(* products.                                                               *)
(*                                                                         *)
(* Object store (src/src/storage/minio_client.py), the cleaners            *)
(* (src/src/processing/clean_*.py, librairies_geo.py), the warehouse       *)
(* loaders (data_to_postgre.py, librairies_to_postgre.py) and the          *)
(* orchestrated run (src/src/pipeline.py).                                 *)
(*                                                                         *)
(* Specifications:                                                         *)
(*   Spec            one client upserting and deleting products, one call  *)
(*                   at a time                                             *)
(*   SpecHistory     one client calling every writing method of the store  *)
(*                   while the clock advances                              *)
(*   SpecConcurrent  two clients whose upsert_product calls interleave     *)
(*                   between the server's match and its insert             *)
(*   SpecReads       two clients whose record_price calls interleave       *)
(*                   between the clock read and the insert, and            *)
(*                   get_price_history reads                               *)
(*   SpecAgg         the aggregation pipelines, applied to collections     *)
(*                   drawn from a bounded set                              *)
(*   SpecStore       upload_export and get_export on the bronze bucket     *)
(*   SpecClean       raw uploads, the cleaners' run() and                  *)
(*                   get_latest_silver                                     *)
(*   SpecCleanData   clean_data applied to batches drawn from a bounded    *)
(*                   set                                                   *)
(*   SpecLoad        books and partners from the raw upload to the         *)
(*                   warehouse table, the load step by step                *)
(*   SpecGold        GoldLoader.run over the three domains                 *)
(*   SpecPipeline    EcommercePipeline.run over the categories             *)
(*   SpecMissingTitle  upsert_product with and without a title             *)
(*   SpecPartners    the partners' uploads, cleaner and load               *)
(*   SpecViews       views created over the warehouse tables between the   *)
(*                   loads of GoldLoader and PostgresLoader                *)
(*   SpecMalformed   the books cleaner over raw objects with well-formed   *)
(*                   and malformed lines                                   *)
(*   SpecIngest      the upload step of the quotes spider and of the       *)
(*                   e-commerce scraper while the clock advances           *)
(*   SpecCrawl       crawls of the books and quotes spiders, page by page  *)
(*   SpecPrice       _parse_price applied to texts drawn from a bounded    *)
(*                   set                                                   *)
(*   SpecReclean     the books clean_data applied to a batch and to its    *)
(*                   own output                                            *)
(*   SpecProcess     process_product called product after product          *)
(*   SpecSku         upsert_product called with the scraper's dicts        *)
(*   SpecRgpd        the partners' cleaner over workbooks that differ in   *)
(*                   their contact columns                                 *)
(***************************************************************************)
EXTENDS Integers, Sequences, FiniteSets, TLC

VARIABLES
    products,       \* self.products: documents in natural (insertion) order
    price_history,  \* self.price_history: points in insertion order
    scraping_logs,  \* self.scraping_logs: run-log entries in insertion order
    nextId,         \* the next ObjectId the server hands out
    now,            \* the wall clock read by datetime.utcnow(), in stored (ms) ticks
    lastUpsert,     \* history: per identity key, the price of the last upsert the store applied
    pc,             \* where each concurrent client is inside its call
    arg,            \* the document a client's call in flight carries
    ret,            \* what each concurrent client's last upsert_product returned
    reads,          \* the results of the get_price_history calls made so far, in call order
    aggOut,         \* SpecAgg: the result of the last aggregation call
    objects,        \* the object store: per bucket, the objects it holds
    mtime,          \* the object store's clock, read for last_modified
    tables,         \* the warehouse: per table, the committed rows or Missing; pg_views, its views
    load,           \* the warehouse load in flight and its open transaction
    lakeOut,        \* the outcome of the last object-store, cleaner or loader call
    uploaded,       \* history: per bronze key, the bytes of the last two upload_export that succeeded
    run             \* the orchestrated run in progress

vars == <<products, price_history, scraping_logs, nextId, now, lastUpsert,
          pc, arg, ret, reads, aggOut, objects, mtime, tables, load, lakeOut, uploaded, run>>

(***************************************************************************)
(* Bounds of the model.                                                    *)
(***************************************************************************)
MaxClock == 1
MaxDocs == 2
MaxHist == 2
MaxLogs == 1
MaxReads == 2
MaxAggDocs == 3

(***************************************************************************)
(* Values.  A numeric field is <<n>> when it holds the number n and <<>>   *)
(* when it is null or missing (None in Python, null in BSON): the two are  *)
(* told apart from every number without comparing values of two types.     *)
(***************************************************************************)
Null == <<>>
Num(n) == <<n>>
IsNum(v) == v # Null
Val(v) == v[1]

Absent == "<absent>"     \* a key the dict does not hold
NullStr == "<null>"      \* a string field holding null
Unknown == "unknown"     \* mongo_client.py:135, the default category

Titles == {"A", "B"}
Categories == {"x", "y"}
Clients == {1, 2}

Min(S) == CHOOSE x \in S : \A y \in S : x <= y
Max(S) == CHOOSE x \in S : \A y \in S : x >= y

(***************************************************************************)
(* Product.sku: a function of the title alone (md5 of the title).          *)
(***************************************************************************)
sku(title) == "SKU-" \o title

(***************************************************************************)
(* A product dict handed to upsert_product.                                *)
(***************************************************************************)
ProductDict(t, c, p, r, s, ca) ==
    [title |-> t, category |-> c, price |-> p, rating |-> r, sku |-> s, created_at |-> ca]

(***************************************************************************)
(* upsert_product, lines 126-129: the timestamps put into the dict.  The   *)
(* two reads of the clock in one call fall in one stored tick t.           *)
(***************************************************************************)
Stamped(product, t) ==
    [product EXCEPT !.created_at = IF @ = Null THEN Num(t) ELSE @]
        @@ [updated_at |-> Num(t)]

(***************************************************************************)
(* upsert_product, lines 133-136: the filter of update_one.                *)
(***************************************************************************)
Filter(product) ==
    [title |-> IF product.title = Absent THEN NullStr ELSE product.title,
     category |-> IF product.category = Absent THEN Unknown ELSE product.category]

Matches(d, f) == d.title = f.title /\ d.category = f.category

MatchingDocsNone(coll, f) == {}

MatchingDocs(coll, f) == {i \in DOMAIN coll : Matches(coll[i], f)}

(***************************************************************************)
(* {"$set": product}: every key the dict holds overwrites the document's   *)
(* field; created_at and updated_at are always among them.                 *)
(***************************************************************************)
SetFields(d, s) ==
    [d EXCEPT !.title = IF s.title # Absent THEN s.title ELSE @,
              !.category = IF s.category # Absent THEN s.category ELSE @,
              !.price = s.price,
              !.rating = s.rating,
              !.sku = IF s.sku # Absent THEN s.sku ELSE @,
              !.created_at = s.created_at,
              !.updated_at = s.updated_at]

(***************************************************************************)
(* The document an upsert that matched nothing starts from: a fresh _id    *)
(* and the filter's equality fields.                                       *)
(***************************************************************************)
UpsertBase(id, f) ==
    [id |-> id, title |-> f.title, category |-> f.category, price |-> Null,
     rating |-> Null, sku |-> Absent, created_at |-> Null, updated_at |-> Null]

(***************************************************************************)
(* _create_indexes, line 85: the unique sparse index on sku.  A write that *)
(* would leave document d with the sku of another document is refused      *)
(* (DuplicateKeyError, a PyMongoError).                                    *)
(***************************************************************************)
DuplicateKey(coll, d) ==
    /\ d.sku # Absent
    /\ \E i \in DOMAIN coll : coll[i].id # d.id /\ coll[i].sku = d.sku

(***************************************************************************)
(* The write half of update_one(filter, {"$set": s}, upsert=True) given    *)
(* the set of positions the match found: the first match is updated, or a  *)
(* new document is inserted when there is none.  upserted_id is 0 for      *)
(* None.                                                                   *)
(***************************************************************************)
WriteMatched(coll, nid, f, s, found) ==
    IF found # {}
    THEN LET i == Min(found)
             d == SetFields(coll[i], s)
         IN  IF DuplicateKey(coll, d)
             THEN [error |-> TRUE, coll |-> coll, nid |-> nid, upserted_id |-> 0]
             ELSE [error |-> FALSE, coll |-> [coll EXCEPT ![i] = d], nid |-> nid,
                   upserted_id |-> 0]
    ELSE LET d == SetFields(UpsertBase(nid, f), s)
         IN  IF DuplicateKey(coll, d)
             THEN [error |-> TRUE, coll |-> coll, nid |-> nid, upserted_id |-> 0]
             ELSE [error |-> FALSE, coll |-> Append(coll, d), nid |-> nid + 1,
                   upserted_id |-> nid]

(***************************************************************************)
(* update_one run by the server with nothing in between: match, then       *)
(* write.                                                                  *)
(***************************************************************************)
update_one(coll, nid, f, s) == WriteMatched(coll, nid, f, s, MatchingDocs(coll, f))

(***************************************************************************)
(* upsert_product's return value, lines 141-150: the inserted id,          *)
(* "updated", or None when the store raised.                               *)
(***************************************************************************)
None == [kind |-> "None", id |-> 0]
Updated == [kind |-> "updated", id |-> 0]
Inserted(id) == [kind |-> "inserted", id |-> id]

NotCalled == [kind |-> "not called", id |-> 0]

UpsertReturn(w) ==
    IF w.error THEN None
    ELSE IF w.upserted_id # 0 THEN Inserted(w.upserted_id) ELSE Updated

KeyOf(product) == <<Filter(product).title, Filter(product).category>>
Keys == (Titles \cup {NullStr}) \X (Categories \cup {Unknown})

(***************************************************************************)
(* History kept for the checks: the price and the return kind of the last  *)
(* upsert of each key that the store applied (the call did not raise).     *)
(***************************************************************************)
Applied(w, product, last) ==
    IF w.error THEN last
    ELSE [last EXCEPT ![KeyOf(product)] =
              [price |-> product.price, kind |-> UpsertReturn(w).kind]]

NoUpsert == [price |-> Null, kind |-> "never"]

(***************************************************************************)
(* Inputs of the calls.                                                    *)
(***************************************************************************)
Prices == {Num(10), Num(12)}
Skus == {sku(t) : t \in Titles}

ProductInputs ==
    {ProductDict(t, c, p, Num(3), IF withSku THEN sku(t) ELSE Absent, Null) :
        t \in Titles, c \in {"x", Absent}, p \in Prices, withSku \in BOOLEAN}

NoCall == [op |-> "none", arg |-> <<>>, result |-> <<>>]

catalogVars == <<products, price_history, scraping_logs, nextId, now, lastUpsert>>
clientVars == <<pc, arg, ret>>
lakeVars == <<objects, mtime, tables, load, lakeOut, uploaded, run>>

(***************************************************************************)
(* The object store, the warehouse and the run before anything was called: *)
(* MinioClient.__init__ leaves the three buckets empty (minio_client.py    *)
(* lines 34-57), no warehouse table exists, no load and no run is under    *)
(* way.                                                                    *)
(***************************************************************************)
Missing == "<missing table>"
TableNames == {"fact_books", "fact_quotes", "fact_products", "dim_partners"}
\* the warehouse before any load: no table, and no view in pg_views
NoTables == [t \in TableNames |-> Missing] @@ [pg_views |-> {}]
NoLoad == [pc |-> "idle"]
NoRun == [pc |-> "idle"]

LakeInit ==
    /\ objects = [bronze |-> {}, silver |-> {}]
    /\ mtime = 0
    /\ tables = NoTables
    /\ load = NoLoad
    /\ lakeOut = NoCall
    /\ uploaded = <<>>
    /\ run = NoRun

Init ==
    /\ products = <<>>
    /\ price_history = <<>>
    /\ scraping_logs = <<>>
    /\ nextId = 1
    /\ now = 0
    /\ lastUpsert = [k \in Keys |-> NoUpsert]
    /\ pc = [c \in Clients |-> "idle"]
    /\ arg = [c \in Clients |-> <<>>]
    /\ ret = [c \in Clients |-> NotCalled]
    /\ reads = <<>>
    /\ aggOut = NoCall
    /\ LakeInit

(***************************************************************************)
(* The clock moves on between two reads of it, or does not: two calls      *)
(* inside one stored tick read the same value.                             *)
(***************************************************************************)
Tick ==
    /\ now < MaxClock
    /\ now' = now + 1
    /\ UNCHANGED <<products, price_history, scraping_logs, nextId, lastUpsert,
                   clientVars, reads, aggOut, lakeVars>>

(***************************************************************************)
(* upsert_product(product), lines 110-150, called with no other call in    *)
(* flight.                                                                 *)
(***************************************************************************)
UpsertProduct(product) ==
    LET w == update_one(products, nextId, Filter(product), Stamped(product, now))
    IN  /\ w.nid <= MaxDocs + 1
        /\ products' = w.coll
        /\ nextId' = w.nid
        /\ lastUpsert' = Applied(w, product, lastUpsert)
        /\ UNCHANGED <<price_history, scraping_logs, now, clientVars, reads, aggOut, lakeVars>>

(***************************************************************************)
(* delete_product(product_id), lines 239-245.                              *)
(***************************************************************************)
DeleteProduct(id) ==
    /\ products' = SelectSeq(products, LAMBDA d : d.id # id)
    /\ UNCHANGED <<price_history, scraping_logs, nextId, now, lastUpsert,
                   clientVars, reads, aggOut, lakeVars>>

(***************************************************************************)
(* delete_all_products(), lines 612-623.                                   *)
(***************************************************************************)
DeleteAllProducts ==
    /\ products' = <<>>
    /\ UNCHANGED <<price_history, scraping_logs, nextId, now, lastUpsert,
                   clientVars, reads, aggOut, lakeVars>>

(***************************************************************************)
(* record_price(sku, price), lines 292-304: the document inserted.         *)
(***************************************************************************)
PricePoint(s, price, date) == [sku |-> s, price |-> price, date |-> date]

InsertPointReplacingSku(hist, point) ==
    IF \E i \in DOMAIN hist : hist[i].sku = point.sku
    THEN [i \in DOMAIN hist |-> IF hist[i].sku = point.sku THEN point ELSE hist[i]]
    ELSE Append(hist, point)

InsertPoint(hist, point) == Append(hist, point)

RecordPrice(s, price) ==
    /\ Len(price_history) < MaxHist
    /\ price_history' = InsertPoint(price_history, PricePoint(s, price, now))
    /\ UNCHANGED <<products, scraping_logs, nextId, now, lastUpsert,
                   clientVars, reads, aggOut, lakeVars>>

(***************************************************************************)
(* log_scraping_run(status, products_scraped, duration_seconds,            *)
(* images_stored, errors), lines 545-572.                                  *)
(***************************************************************************)
LogEntry(t, status, products_scraped, errors) ==
    [timestamp |-> t, status |-> status,
     products_scraped |-> products_scraped, errors |-> errors]

LogScrapingRun(status, products_scraped, errors) ==
    /\ Len(scraping_logs) < MaxLogs
    /\ scraping_logs' = Append(scraping_logs,
                               LogEntry(now, status, products_scraped, errors))
    /\ UNCHANGED <<products, price_history, nextId, now, lastUpsert,
                   clientVars, reads, aggOut, lakeVars>>

Next ==
    \/ \E product \in ProductInputs : UpsertProduct(product)
    \/ \E id \in 1 .. MaxDocs : DeleteProduct(id)
    \/ DeleteAllProducts

Spec == Init /\ [][Next]_vars

(***************************************************************************)
(* The sequential store with every writing method, over a small catalog.   *)
(***************************************************************************)
HistProductInputs ==
    {ProductDict("A", "x", p, Num(3), sku("A"), ca) : p \in Prices, ca \in {Null, Num(0)}}

HistSkus == {sku("A")}

NextHistory ==
    \/ Tick
    \/ \E product \in HistProductInputs : UpsertProduct(product)
    \/ \E id \in 1 .. MaxDocs : DeleteProduct(id)
    \/ DeleteAllProducts
    \/ \E s \in HistSkus, price \in {10, 12} : RecordPrice(s, price)
    \/ \E status \in {"success", "failed"} : LogScrapingRun(status, 0, <<>>)

SpecHistory == Init /\ [][NextHistory]_vars

(***************************************************************************)
(* Two clients calling upsert_product at once.  update_one with            *)
(* upsert=True is atomic on the document it matches; when it matches       *)
(* nothing the server inserts, and with no unique index on (title,         *)
(* category) another client's insert can land between that match and the   *)
(* insert.                                                                 *)
(***************************************************************************)
ConcurrentInputs ==
    {ProductDict("A", "x", p, Num(3), IF withSku THEN sku("A") ELSE Absent, Null) :
        p \in Prices, withSku \in BOOLEAN}

InsertsInFlight == Cardinality({c \in Clients : pc[c] = "upsert_insert"})

UpsertMatch(c, product) ==
    /\ pc[c] = "idle"
    /\ LET f == Filter(product)
           s == Stamped(product, now)
           found == MatchingDocs(products, f)
           w == WriteMatched(products, nextId, f, s, found)
       IN  IF found # {}
           THEN /\ products' = w.coll
                /\ nextId' = w.nid
                /\ ret' = [ret EXCEPT ![c] = UpsertReturn(w)]
                /\ lastUpsert' = Applied(w, product, lastUpsert)
                /\ UNCHANGED <<pc, arg>>
           ELSE /\ nextId + InsertsInFlight <= MaxDocs
                /\ pc' = [pc EXCEPT ![c] = "upsert_insert"]
                /\ arg' = [arg EXCEPT ![c] = s]
                /\ UNCHANGED <<products, nextId, ret, lastUpsert>>
    /\ UNCHANGED <<price_history, scraping_logs, now, reads, aggOut, lakeVars>>

UpsertInsert(c) ==
    /\ pc[c] = "upsert_insert"
    /\ LET w == WriteMatched(products, nextId, Filter(arg[c]), arg[c], {})
       IN  /\ products' = w.coll
           /\ nextId' = w.nid
           /\ ret' = [ret EXCEPT ![c] = UpsertReturn(w)]
           /\ lastUpsert' = Applied(w, arg[c], lastUpsert)
    /\ pc' = [pc EXCEPT ![c] = "idle"]
    /\ arg' = [arg EXCEPT ![c] = <<>>]
    /\ UNCHANGED <<price_history, scraping_logs, now, reads, aggOut, lakeVars>>

NextConcurrent ==
    \/ \E c \in Clients, product \in ConcurrentInputs : UpsertMatch(c, product)
    \/ \E c \in Clients : UpsertInsert(c)

SpecConcurrent == Init /\ [][NextConcurrent]_vars

(***************************************************************************)
(* Two clients calling record_price at once, and get_price_history.        *)
(* record_price reads the client's clock (line 303) and then sends the     *)
(* insert (line 300): another call can complete in between.                *)
(***************************************************************************)
TicksPerDay == 1

RecordsInFlight == Cardinality({c \in Clients : pc[c] = "record_insert"})

RecordStamp(c, s, price) ==
    /\ pc[c] = "idle"
    /\ Len(price_history) + RecordsInFlight < MaxHist
    /\ pc' = [pc EXCEPT ![c] = "record_insert"]
    /\ arg' = [arg EXCEPT ![c] = PricePoint(s, price, now)]
    /\ UNCHANGED <<catalogVars, ret, reads, aggOut, lakeVars>>

RecordInsert(c) ==
    /\ pc[c] = "record_insert"
    /\ price_history' = InsertPoint(price_history, arg[c])
    /\ pc' = [pc EXCEPT ![c] = "idle"]
    /\ arg' = [arg EXCEPT ![c] = <<>>]
    /\ UNCHANGED <<products, scraping_logs, nextId, now, lastUpsert, ret, reads, aggOut, lakeVars>>

(***************************************************************************)
(* get_price_history(sku, days), lines 306-322: the points of the sku      *)
(* dated at or after now - days, projected to {price, date}, sorted by     *)
(* date ascending.  The sort fixes no order among points of equal date:    *)
(* every order that is ascending in date is a possible result.             *)
(***************************************************************************)
InWindow(hist, s, start_date) ==
    {i \in DOMAIN hist : hist[i].sku = s /\ hist[i].date >= start_date}

Orders(S) ==
    {o \in [1 .. Cardinality(S) -> S] : \A i, j \in DOMAIN o : i # j => o[i] # o[j]}

SortDateAscending(hist, S) ==
    {o \in Orders(S) : \A i, j \in DOMAIN o : i < j => hist[o[i]].date <= hist[o[j]].date}

get_price_history(hist, s, days, t) ==
    {[i \in DOMAIN o |-> [price |-> hist[o[i]].price, date |-> hist[o[i]].date]] :
        o \in SortDateAscending(hist, InWindow(hist, s, t - days * TicksPerDay))}

GetPriceHistory(s, days) ==
    /\ Len(reads) < MaxReads
    /\ \E result \in get_price_history(price_history, s, days, now) :
           reads' = Append(reads, [sku |-> s, days |-> days, result |-> result])
    /\ UNCHANGED <<catalogVars, clientVars, aggOut, lakeVars>>

NextReads ==
    \/ Tick
    \/ \E c \in Clients, s \in HistSkus, price \in {10, 12} : RecordStamp(c, s, price)
    \/ \E c \in Clients : RecordInsert(c)
    \/ \E s \in HistSkus, days \in {1, 30} : GetPriceHistory(s, days)

SpecReads == Init /\ [][NextReads]_vars

(***************************************************************************)
(* The aggregation pipelines, lines 326-517.  Each is an operator from the *)
(* collection (documents in natural order) to its result; where the        *)
(* server fixes no order (a $sort on equal keys) the operator gives the    *)
(* set of results it may return.                                           *)
(***************************************************************************)
RECURSIVE SumNum(_), CountNum(_)
SumNum(vs) ==
    IF vs = <<>> THEN 0
    ELSE (IF IsNum(Head(vs)) THEN Val(Head(vs)) ELSE 0) + SumNum(Tail(vs))

CountNum(vs) ==
    IF vs = <<>> THEN 0
    ELSE (IF IsNum(Head(vs)) THEN 1 ELSE 0) + CountNum(Tail(vs))

NumsOf(vs) == {Val(vs[i]) : i \in {j \in DOMAIN vs : IsNum(vs[j])}}

(***************************************************************************)
(* $avg, $min, $max: null and missing values are skipped; the result is    *)
(* null when no value is numeric.  An average is the fraction sum / count, *)
(* and count = 0 stands for null.                                          *)
(***************************************************************************)
AvgMissingAsZero(vs) == [sum |-> SumNum(vs), count |-> Len(vs)]

Avg(vs) == [sum |-> SumNum(vs), count |-> CountNum(vs)]

MinOf(vs) == IF NumsOf(vs) = {} THEN Null ELSE Num(Min(NumsOf(vs)))
MaxOf(vs) == IF NumsOf(vs) = {} THEN Null ELSE Num(Max(NumsOf(vs)))

PricesOf(coll) == [i \in DOMAIN coll |-> coll[i].price]
RatingsOf(coll) == [i \in DOMAIN coll |-> coll[i].rating]
TitlesOf(coll) == [i \in DOMAIN coll |-> coll[i].title]

(***************************************************************************)
(* get_stats(), lines 326-370.                                             *)
(***************************************************************************)
get_stats(coll) ==
    IF coll # <<>>
    THEN [total_products |-> Len(coll),
          avg_price |-> Avg(PricesOf(coll)),
          min_price |-> MinOf(PricesOf(coll)),
          max_price |-> MaxOf(PricesOf(coll)),
          avg_rating |-> Avg(RatingsOf(coll)),
          total_categories |-> Cardinality({coll[i].category : i \in DOMAIN coll})]
    ELSE [total_products |-> 0,
          avg_price |-> [sum |-> 0, count |-> 1],
          min_price |-> Num(0),
          max_price |-> Num(0),
          avg_rating |-> [sum |-> 0, count |-> 1],
          total_categories |-> 0]

(***************************************************************************)
(* get_price_distribution(buckets), lines 432-459.  $bucket puts a         *)
(* document into the bucket of the greatest boundary at or below its       *)
(* price, and into the default bucket "5000+" when its price is not a      *)
(* number or lies outside [first boundary, last boundary).  Bucket 0 is    *)
(* the default bucket; buckets with no document are not output.            *)
(***************************************************************************)
DefaultBuckets == <<0, 100, 200, 500, 1000, 2000, 5000>>
DefaultLabel == "5000+"

BucketOf(price, B) ==
    IF IsNum(price) /\ Val(price) >= B[1] /\ Val(price) < B[Len(B)]
    THEN Max({i \in 1 .. Len(B) - 1 : B[i] <= Val(price)})
    ELSE 0

BucketRow(coll, B, b) ==
    LET members == SelectSeq(coll, LAMBDA d : BucketOf(d.price, B) = b)
    IN  [label |-> IF b = 0 THEN DefaultLabel ELSE "boundary",
         lower |-> IF b = 0 THEN 0 ELSE B[b],
         count |-> Len(members),
         products |-> TitlesOf(members),
         avg_rating |-> Avg(RatingsOf(members))]

get_price_distribution(coll, buckets) ==
    LET B == IF buckets = <<>> THEN DefaultBuckets ELSE buckets
        ids == [i \in 1 .. Len(B) |-> IF i = Len(B) THEN 0 ELSE i]
        rows == [i \in DOMAIN ids |-> BucketRow(coll, B, ids[i])]
    IN  SelectSeq(rows, LAMBDA r : r.count > 0)

(***************************************************************************)
(* BSON order of a numeric field: null sorts below every number (none of  *)
(* the stored numbers is negative).                                        *)
(***************************************************************************)
BsonRank(v) == IF IsNum(v) THEN Val(v) ELSE -1

(***************************************************************************)
(* get_most_expensive_by_category(), lines 461-484: $sort by price         *)
(* descending, $group by category taking $first, $sort the groups by       *)
(* max_price descending, $project.                                         *)
(***************************************************************************)
SortPriceDescending(coll) ==
    {o \in Orders(DOMAIN coll) :
        \A i, j \in DOMAIN o : i < j => BsonRank(coll[o[i]].price) >= BsonRank(coll[o[j]].price)}

GroupFirst(coll, o) ==
    {[category |-> c,
      max_price |-> coll[o[Min({i \in DOMAIN o : coll[o[i]].category = c})]].price,
      product_title |-> coll[o[Min({i \in DOMAIN o : coll[o[i]].category = c})]].title] :
        c \in {coll[i].category : i \in DOMAIN coll}}

SortMaxPriceDescending(rows) ==
    {[i \in DOMAIN o |-> o[i]] : o \in
        {o \in Orders(rows) :
            \A i, j \in DOMAIN o : i < j => BsonRank(o[i].max_price) >= BsonRank(o[j].max_price)}}

get_most_expensive_by_category(coll) ==
    UNION {SortMaxPriceDescending(GroupFirst(coll, o)) : o \in SortPriceDescending(coll)}

(***************************************************************************)
(* get_value_ranking(limit), lines 486-517: $match price > 0 and           *)
(* rating > 0, $project the value score rating / (price / 100), $sort by   *)
(* it descending, $limit.  The score is kept as the fraction               *)
(* (100 * rating) / price.                                                 *)
(***************************************************************************)
MatchPriceOnly(d) == IsNum(d.price) /\ Val(d.price) > 0

MatchPositive(d) ==
    /\ IsNum(d.price) /\ Val(d.price) > 0
    /\ IsNum(d.rating) /\ Val(d.rating) > 0

ProjectScore(d) ==
    [id |-> d.id, title |-> d.title, price |-> d.price, rating |-> d.rating,
     category |-> d.category,
     value_score |-> [num |-> 100 * BsonRank(d.rating), den |-> Val(d.price)]]

ScoreGeq(a, b) == a.num * b.den >= b.num * a.den

SortScoreDescending(rows) ==
    {o \in Orders(DOMAIN rows) :
        \A i, j \in DOMAIN o : i < j => ScoreGeq(rows[o[i]].value_score, rows[o[j]].value_score)}

Limit(rows, limit) == SubSeq(rows, 1, IF Len(rows) < limit THEN Len(rows) ELSE limit)

get_value_ranking(coll, limit) ==
    LET matched == SelectSeq(coll, MatchPositive)
        projected == [i \in DOMAIN matched |-> ProjectScore(matched[i])]
    IN  {Limit([i \in DOMAIN o |-> projected[o[i]]], limit) :
            o \in SortScoreDescending(projected)}

(***************************************************************************)
(* The collections the pipelines are applied to: up to MaxAggDocs products *)
(* upserted into an empty collection.                                      *)
(***************************************************************************)
AggTitleOrder == <<"A", "B", "C", "D">>
AggTitles == {AggTitleOrder[i] : i \in DOMAIN AggTitleOrder}
CategoryOfTitle(t) == IF t \in {"A", "B"} THEN "x" ELSE "y"
\* <<price, rating>> of the stored documents: a missing price or rating, a
\* zero price or rating, equal prices, prices below, between and above the
\* boundaries
AggFields ==
    {<<Null, Num(3)>>, <<Num(0), Num(3)>>, <<Num(0), Num(0)>>, <<Num(50), Null>>,
     <<Num(50), Num(0)>>, <<Num(50), Num(3)>>, <<Num(250), Num(3)>>,
     <<Num(600), Num(3)>>}

RECURSIVE Upserted(_)
Upserted(batch) ==
    IF batch = <<>> THEN <<>>
    ELSE LET before == Upserted(SubSeq(batch, 1, Len(batch) - 1))
             product == batch[Len(batch)]
         IN  update_one(before, Len(before) + 1, Filter(product), Stamped(product, 0)).coll

Batch(T, f) ==
    LET order == SelectSeq(AggTitleOrder, LAMBDA t : t \in T)
    IN  [i \in DOMAIN order |->
            ProductDict(order[i], CategoryOfTitle(order[i]), f[order[i]][1],
                        f[order[i]][2], sku(order[i]), Null)]

AggCollections(maxDocs) ==
    UNION {{Upserted(Batch(T, f)) : f \in [T -> AggFields]} :
              T \in {S \in SUBSET AggTitles : Cardinality(S) <= maxDocs}}

InitAgg ==
    /\ products \in AggCollections(MaxAggDocs)
    /\ nextId = Len(products) + 1
    /\ price_history = <<>>
    /\ scraping_logs = <<>>
    /\ now = 0
    /\ lastUpsert = [k \in Keys |-> NoUpsert]
    /\ pc = [c \in Clients |-> "idle"]
    /\ arg = [c \in Clients |-> <<>>]
    /\ ret = [c \in Clients |-> NotCalled]
    /\ reads = <<>>
    /\ aggOut = NoCall
    /\ LakeInit

GetStats ==
    /\ aggOut' = [op |-> "get_stats", arg |-> <<>>, result |-> get_stats(products)]
    /\ UNCHANGED <<catalogVars, clientVars, reads, lakeVars>>

GetPriceDistribution(buckets) ==
    /\ aggOut' = [op |-> "get_price_distribution", arg |-> buckets,
                  result |-> get_price_distribution(products, buckets)]
    /\ UNCHANGED <<catalogVars, clientVars, reads, lakeVars>>

GetMostExpensiveByCategory ==
    /\ \E result \in get_most_expensive_by_category(products) :
           aggOut' = [op |-> "get_most_expensive_by_category", arg |-> <<>>,
                      result |-> result]
    /\ UNCHANGED <<catalogVars, clientVars, reads, lakeVars>>

GetValueRanking(limit) ==
    /\ \E result \in get_value_ranking(products, limit) :
           aggOut' = [op |-> "get_value_ranking", arg |-> limit, result |-> result]
    /\ UNCHANGED <<catalogVars, clientVars, reads, lakeVars>>

AggBoundaries == {<<>>, <<0, 200, 500>>, <<200, 500>>}

NextAgg ==
    \/ GetStats
    \/ \E buckets \in AggBoundaries : GetPriceDistribution(buckets)
    \/ GetMostExpensiveByCategory
    \/ \E limit \in 1 .. 2 : GetValueRanking(limit)

SpecAgg == InitAgg /\ [][NextAgg]_vars

(***************************************************************************)
(* Checks of the sequential store.                                         *)
(***************************************************************************)
DocsOfKey(k) ==
    {i \in DOMAIN products : <<products[i].title, products[i].category>> = k}

C2_CreatedAtKept ==
    [][\A product \in HistProductInputs :
          LET found == MatchingDocs(products, Filter(product))
          IN  ( /\ UpsertProduct(product)
                /\ product.created_at = Null
                /\ found # {}
                /\ now > Val(products[Min(found)].updated_at) )
              => /\ products'[Min(found)].created_at = products[Min(found)].created_at
                 /\ Val(products'[Min(found)].updated_at)
                        > Val(products[Min(found)].updated_at)]_vars

\* C4: price_history is append-only.  Every step of every catalog-store
\* operation (record_price, upsert_product, delete_product,
\* delete_all_products, log_scraping_run) keeps every point already stored,
\* with its sku, price and date, and a record_price call adds exactly one
\* point.
C4_AppendOnly ==
    [][ /\ Len(price_history') >= Len(price_history)
        /\ SubSeq(price_history', 1, Len(price_history)) = price_history
        /\ \A s \in HistSkus, price \in {10, 12} :
               RecordPrice(s, price) => Len(price_history') = Len(price_history) + 1
      ]_vars

\* C4 witness: two points of one sku are stored, and the catalog has since been
\* written, emptied (a document was inserted and none is left) and a run logged.
C4_Witness ==
    /\ Len(price_history) >= 2
    /\ price_history[1].sku = price_history[2].sku
    /\ nextId > 1
    /\ products = <<>>
    /\ Len(scraping_logs) >= 1

(***************************************************************************)
(* Checks of the concurrent store.                                         *)
(***************************************************************************)
\* C3: when upsert_product calls for one identity key run concurrently, then
\* in every interleaving, once the calls have returned the collection holds
\* exactly one document for that key and every call returned a success (an
\* inserted id or "updated"), never None.
C3_ConcurrentUpsertsConverge ==
    (\A c \in Clients : pc[c] = "idle" /\ ret[c] # NotCalled)
        => /\ Cardinality(DocsOfKey(<<"A", "x">>)) = 1
           /\ \A c \in Clients : ret[c] # None

StrictlyIncreasingInDate(r) ==
    \A i, j \in DOMAIN r : i < j => r[i].date < r[j].date

IsPrefix(a, b) == Len(a) <= Len(b) /\ SubSeq(b, 1, Len(a)) = a

\* C5: for any sku, while record_price appends (possibly concurrent) are
\* interleaved with repeated get_price_history(sku, days) reads, every
\* returned sequence is strictly increasing in date and the result of each
\* earlier read is a prefix of the result of every later read.
C5_ReadsPrefixStable ==
    \A i \in DOMAIN reads :
        /\ StrictlyIncreasingInDate(reads[i].result)
        /\ \A j \in DOMAIN reads :
               (i < j /\ reads[i].sku = reads[j].sku /\ reads[i].days = reads[j].days)
                   => IsPrefix(reads[i].result, reads[j].result)

(***************************************************************************)
(* Checks of the aggregations.                                             *)
(***************************************************************************)
RECURSIVE SumCounts(_)
SumCounts(rows) == IF rows = <<>> THEN 0 ELSE Head(rows).count + SumCounts(Tail(rows))

WithPrice == {i \in DOMAIN products : IsNum(products[i].price)}
WithRating == {i \in DOMAIN products : IsNum(products[i].rating)}

Boundaries == IF aggOut.arg = <<>> THEN DefaultBuckets ELSE aggOut.arg

CountOfBucket(rows, label, lower) ==
    SumCounts(SelectSeq(rows, LAMBDA r : r.label = label /\ r.lower = lower))

\* C6: for any boundary list B and any set of product documents (documents
\* with a missing price or a price below B[0] included), the counts of the
\* buckets returned by get_price_distribution(B) sum to the number of
\* documents that have a defined price.
C6_BucketCountsSumToPriced ==
    aggOut.op = "get_price_distribution"
        => SumCounts(aggOut.result) = Cardinality(WithPrice)

\* C7: for any strictly increasing boundary list B, get_price_distribution(B)
\* counts a document in the bucket of B[i] exactly when B[i] <= price < B[i+1],
\* and the one overflow bucket holds exactly the documents whose price is >=
\* the last boundary.
C7_HalfOpenBucketsAndOverflow ==
    aggOut.op = "get_price_distribution"
        => LET B == Boundaries
           IN  /\ \A i \in 1 .. Len(B) - 1 :
                      CountOfBucket(aggOut.result, "boundary", B[i])
                          = Cardinality({d \in WithPrice :
                                Val(products[d].price) >= B[i]
                                /\ Val(products[d].price) < B[i + 1]})
               /\ CountOfBucket(aggOut.result, DefaultLabel, 0)
                      = Cardinality({d \in WithPrice : Val(products[d].price) >= B[Len(B)]})

CategoriesPresent == {products[i].category : i \in DOMAIN products}

RowsOfCategory(rows, c) == {i \in DOMAIN rows : rows[i].category = c}

MostExpensiveRowsRight(rows) ==
    \A c \in CategoriesPresent :
        /\ Cardinality(RowsOfCategory(rows, c)) = 1
        /\ \A i \in RowsOfCategory(rows, c) :
               /\ rows[i].max_price
                      = MaxOf(PricesOf(SelectSeq(products, LAMBDA d : d.category = c)))
               /\ \E d \in DOMAIN products :
                      /\ products[d].category = c
                      /\ products[d].title = rows[i].product_title
                      /\ products[d].price = rows[i].max_price

TitleByCategory(rows) == {<<rows[i].category, rows[i].product_title>> : i \in DOMAIN rows}

\* C8: get_most_expensive_by_category returns exactly one row per category
\* present, each row's max_price is the maximum price of that category and its
\* product_title is the title of a document of the category with that price,
\* and the choice among tied documents is deterministic: two calls on the same
\* collection return the same title for every category.
C8_MostExpensiveDeterministic ==
    [][ /\ aggOut'.op = "get_most_expensive_by_category"
            => /\ Len(aggOut'.result) = Cardinality(CategoriesPresent)
               /\ MostExpensiveRowsRight(aggOut'.result)
        /\ ( /\ aggOut.op = "get_most_expensive_by_category"
             /\ aggOut'.op = "get_most_expensive_by_category"
             /\ products' = products )
            => TitleByCategory(aggOut'.result) = TitleByCategory(aggOut.result)
      ]_vars

Eligible ==
    {i \in DOMAIN products :
        /\ IsNum(products[i].price) /\ Val(products[i].price) > 0
        /\ IsNum(products[i].rating) /\ Val(products[i].rating) > 0}

ScoreOf(d) == [num |-> 100 * Val(d.rating), den |-> Val(d.price)]

\* C9: for any collection and any limit >= 1, get_value_ranking(limit) returns
\* no document with price <= 0 or rating <= 0 or a missing price or rating,
\* returns at most limit documents, orders them by non-increasing value score
\* rating / (price / 100), and every eligible document left out has a score no
\* greater than the lowest returned score.
C9_ValueRankingRight ==
    aggOut.op = "get_value_ranking"
        => LET rows == aggOut.result
               returned == {rows[i].id : i \in DOMAIN rows}
           IN  /\ \A i \in DOMAIN rows :
                      /\ IsNum(rows[i].price) /\ Val(rows[i].price) > 0
                      /\ IsNum(rows[i].rating) /\ Val(rows[i].rating) > 0
                      /\ \E d \in DOMAIN products :
                             /\ products[d].id = rows[i].id
                             /\ products[d].price = rows[i].price
                             /\ products[d].rating = rows[i].rating
               /\ Len(rows) <= aggOut.arg
               /\ Cardinality(returned) = Len(rows)
               /\ \A i, j \in DOMAIN rows :
                      i < j => ScoreGeq(ScoreOf(rows[i]), ScoreOf(rows[j]))
               /\ \A d \in Eligible :
                      products[d].id \notin returned
                          => /\ Len(rows) = aggOut.arg
                             /\ \A i \in DOMAIN rows :
                                    ScoreGeq(ScoreOf(rows[i]), ScoreOf(products[d]))

\* C9 witness: a ranking limited to one row was returned from a collection that
\* holds two eligible documents of different scores, one document of price 0
\* and one of rating 0.
C9_Witness ==
    /\ aggOut.op = "get_value_ranking"
    /\ aggOut.arg = 1
    /\ Len(aggOut.result) = 1
    /\ \E d, e \in Eligible : ~ScoreGeq(ScoreOf(products[d]), ScoreOf(products[e]))
    /\ \E d \in DOMAIN products : products[d].price = Num(0)
    /\ \E d \in DOMAIN products : products[d].rating = Num(0)

RECURSIVE SumPrices(_), SumRatings(_)
SumPrices(S) ==
    IF S = {} THEN 0
    ELSE LET d == CHOOSE x \in S : TRUE IN Val(products[d].price) + SumPrices(S \ {d})

SumRatings(S) ==
    IF S = {} THEN 0
    ELSE LET d == CHOOSE x \in S : TRUE IN Val(products[d].rating) + SumRatings(S \ {d})

\* avg * n = total (the average is total / n), or avg is null when n = 0
IsAverage(avg, total, n) ==
    IF n = 0 THEN avg.count = 0 ELSE avg.count # 0 /\ avg.sum * n = total * avg.count

\* C10: for any non-empty collection, get_stats gives avg_price as the sum of
\* the defined prices divided by the number of documents with a defined price,
\* and avg_rating likewise over the defined ratings: a document with a missing
\* price or rating is not counted as zero.
C10_AveragesSkipMissing ==
    (aggOut.op = "get_stats" /\ products # <<>>)
        => /\ IsAverage(aggOut.result.avg_price, SumPrices(WithPrice), Cardinality(WithPrice))
           /\ IsAverage(aggOut.result.avg_rating, SumRatings(WithRating),
                        Cardinality(WithRating))

\* C10 witness: get_stats returned on a collection holding a document with no
\* price, a document with no rating and documents with a non-zero price.
C10_Witness ==
    /\ aggOut.op = "get_stats"
    /\ \E d \in DOMAIN products : ~IsNum(products[d].price)
    /\ \E d \in DOMAIN products : ~IsNum(products[d].rating)
    /\ \E d \in WithPrice : Val(products[d].price) > 0
    /\ \E d \in WithRating : Val(products[d].rating) > 0

(***************************************************************************)
(* Strings.  An object key is held as the sequence of its characters, so   *)
(* that Python's comparison, endswith, in, split and replace are computed  *)
(* on it.  AsciiOrder lists the characters the keys are made of by         *)
(* increasing code point, the order str comparison uses.                   *)
(***************************************************************************)
AsciiOrder ==
    <<".", "/", "0", "1", "2", "3", "4", "5", "6", "7", "8", "9", "_",
      "a", "b", "c", "d", "e", "f", "g", "h", "i", "j", "k", "l", "m",
      "n", "o", "p", "q", "r", "s", "t", "u", "v", "w", "x", "y", "z">>

Ord(ch) == CHOOSE i \in DOMAIN AsciiOrder : AsciiOrder[i] = ch

\* a < b on str: at the first position where they differ a holds the smaller
\* character, or a is a proper prefix of b
StrLess(a, b) ==
    \E k \in 1 .. Len(b) :
        /\ \A j \in 1 .. k - 1 : j <= Len(a) /\ a[j] = b[j]
        /\ (k > Len(a) \/ Ord(a[k]) < Ord(b[k]))

startswith(str, prefix) ==
    Len(prefix) <= Len(str) /\ SubSeq(str, 1, Len(prefix)) = prefix

endswith(str, suffix) ==
    Len(suffix) <= Len(str)
        /\ SubSeq(str, Len(str) - Len(suffix) + 1, Len(str)) = suffix

\* sub in str
contains(str, sub) ==
    \E i \in 1 .. Len(str) - Len(sub) + 1 : SubSeq(str, i, i + Len(sub) - 1) = sub

\* str.split('/')[-1]
RECURSIVE LastSegment(_)
LastSegment(str) ==
    IF \E i \in DOMAIN str : str[i] = "/" THEN LastSegment(Tail(str)) ELSE str

\* str.replace(old, new): every occurrence, left to right
RECURSIVE replace(_, _, _)
replace(str, old, new) ==
    IF Len(str) < Len(old) THEN str
    ELSE IF SubSeq(str, 1, Len(old)) = old
         THEN new \o replace(SubSeq(str, Len(old) + 1, Len(str)), old, new)
         ELSE <<Head(str)>> \o replace(Tail(str), old, new)

SortedFirst(files) == CHOOSE f \in files : \A g \in files : g = f \/ StrLess(f, g)

\* sorted(files)[-1] for a list of distinct names
SortedLast(files) == CHOOSE f \in files : \A g \in files : g = f \/ StrLess(g, f)

(***************************************************************************)
(* The object store (minio_client.py).  A bucket is the set of its         *)
(* objects, one per name; put_object replaces the object of that name and  *)
(* stamps it with the server's clock.                                      *)
(***************************************************************************)
MaxPuts == 4

Object(name, data, modified) == [name |-> name, data |-> data, modified |-> modified]

Names(bucket) == {o.name : o \in bucket}

put_object_if_absent(bucket, object_name, data, t) ==
    IF object_name \in Names(bucket) THEN bucket
    ELSE bucket \cup {Object(object_name, data, t)}

put_object(bucket, object_name, data, t) ==
    {o \in bucket : o.name # object_name} \cup {Object(object_name, data, t)}

get_object(bucket, object_name) ==
    (CHOOSE o \in bucket : o.name = object_name).data

\* list_objects(bucket, prefix=prefix, recursive=True)
list_objects(bucket, prefix) == {o \in bucket : startswith(o.name, prefix)}

NoneResult == [kind |-> "None"]
Uri(bucket_name, filename) == [kind |-> "uri", bucket |-> bucket_name, filename |-> filename]
Bytes(data) == [kind |-> "bytes", data |-> data]

\* the last successful upload of a key and the one before it (empty when
\* there was none), for the checks
Uploaded(history, filename, data) ==
    [k \in DOMAIN history \cup {filename} |->
        IF k = filename
        THEN [data |-> data,
              previous |-> IF filename \in DOMAIN history THEN history[filename].data
                           ELSE <<>>]
        ELSE history[k]]

(***************************************************************************)
(* upload_export(data, filename), lines 61-98: put into the bronze bucket, *)
(* or None when the store raised S3Error and wrote nothing.                *)
(***************************************************************************)
UploadExport(data, filename, s3error) ==
    /\ mtime < MaxPuts
    /\ IF s3error
       THEN /\ lakeOut' = [op |-> "upload_export", arg |-> filename, result |-> NoneResult]
            /\ UNCHANGED <<objects, mtime, uploaded>>
       ELSE /\ objects' = [objects EXCEPT !.bronze = put_object(@, filename, data, mtime + 1)]
            /\ mtime' = mtime + 1
            /\ uploaded' = Uploaded(uploaded, filename, data)
            /\ lakeOut' = [op |-> "upload_export", arg |-> filename,
                           result |-> Uri("bronze", filename)]
    /\ UNCHANGED <<catalogVars, clientVars, reads, aggOut, tables, load, run>>

(***************************************************************************)
(* get_export(filename, bucket), lines 110-120: the bytes of the object,   *)
(* or None when the store raised S3Error (no such key among others).       *)
(***************************************************************************)
get_export(store, filename, bucket_name) ==
    IF filename \in Names(store[bucket_name])
    THEN Bytes(get_object(store[bucket_name], filename))
    ELSE NoneResult

GetExport(filename, bucket_name, s3error) ==
    /\ lakeOut' = [op |-> "get_export", arg |-> filename,
                   result |-> IF s3error THEN NoneResult
                              ELSE get_export(objects, filename, bucket_name),
                   s3error |-> s3error]
    /\ UNCHANGED <<catalogVars, clientVars, reads, aggOut, objects, mtime, tables,
                   load, uploaded, run>>

\* list_exports(bucket), lines 122-133
list_exports(store, bucket_name) ==
    {[name |-> o.name, modified |-> o.modified] : o \in store[bucket_name]}

(***************************************************************************)
(* Uploads and downloads of exports, as in                                 *)
(* tests/test_pipeline.py lines 183-194.                                   *)
(***************************************************************************)
ExportNames == {<<"t", "e", "s", "t", "_", "u", "p", "l", "o", "a", "d", ".", "t", "x", "t">>,
                <<"b", "o", "o", "k", "s", ".", "c", "s", "v">>}

ExportData == {<<"T", "e", "s", "t">>, <<"d", "a", "t", "a">>}

NextStore ==
    \/ \E data \in ExportData, filename \in ExportNames, s3error \in BOOLEAN :
          UploadExport(data, filename, s3error)
    \/ \E filename \in ExportNames, s3error \in BOOLEAN :
          GetExport(filename, "bronze", s3error)

SpecStore == Init /\ [][NextStore]_vars

\* what the uploads made so far leave to download under a name
LastUploaded(filename) ==
    IF filename \in DOMAIN uploaded THEN Bytes(uploaded[filename].data) ELSE NoneResult

\* C17: under every name, the bronze bucket gives back exactly the bytes of
\* the last upload_export of that name that succeeded, and nothing under a
\* name never uploaded; so does every get_export the store answers.
C17_GetExportReturnsLastUpload ==
    /\ \A filename \in ExportNames :
          get_export(objects, filename, "bronze") = LastUploaded(filename)
    /\ lakeOut.op = "get_export" /\ ~lakeOut.s3error
          => lakeOut.result = LastUploaded(lakeOut.arg)

\* a download of a name that was uploaded twice with different bytes, after
\* an upload of another name
C17_Witness ==
    /\ lakeOut.op = "get_export"
    /\ lakeOut.result.kind = "bytes"
    /\ uploaded[lakeOut.arg].previous \notin {<<>>, uploaded[lakeOut.arg].data}
    /\ lakeOut.result.data = uploaded[lakeOut.arg].data
    /\ \E o, other \in objects.bronze :
          /\ o.name = lakeOut.arg
          /\ other.name # o.name
          /\ other.modified > o.modified

(***************************************************************************)
(* Text cells of a data frame: sequences of characters, or NaN for a       *)
(* missing cell.  A typographic character is written by its entity name.   *)
(***************************************************************************)
NaN == <<"<NaN>">>
Whitespace == {" ", "\t", "\n", "\r"}

UpperCase == <<"A", "B", "C", "D", "E", "F", "G", "H", "I", "J", "K", "L", "M",
               "N", "O", "P", "Q", "R", "S", "T", "U", "V", "W", "X", "Y", "Z">>
LowerCase == <<"a", "b", "c", "d", "e", "f", "g", "h", "i", "j", "k", "l", "m",
               "n", "o", "p", "q", "r", "s", "t", "u", "v", "w", "x", "y", "z">>

\* str.lower()
lower(str) ==
    [i \in DOMAIN str |->
        IF \E k \in DOMAIN UpperCase : UpperCase[k] = str[i]
        THEN LowerCase[CHOOSE k \in DOMAIN UpperCase : UpperCase[k] = str[i]]
        ELSE str[i]]

\* str.strip()
RECURSIVE lstrip(_)
lstrip(str) ==
    IF str # <<>> /\ Head(str) \in Whitespace THEN lstrip(Tail(str)) ELSE str

RECURSIVE rstrip(_)
rstrip(str) ==
    IF str # <<>> /\ str[Len(str)] \in Whitespace
    THEN rstrip(SubSeq(str, 1, Len(str) - 1))
    ELSE str

strip(str) == rstrip(lstrip(str))

\* re.sub('[chars]+', ch, str): every maximal run of characters of the class
\* becomes one ch
RECURSIVE SkipRun(_, _)
SkipRun(str, class) ==
    IF str # <<>> /\ Head(str) \in class THEN SkipRun(Tail(str), class) ELSE str

RECURSIVE SubRuns(_, _, _)
SubRuns(str, class, ch) ==
    IF str = <<>> THEN <<>>
    ELSE IF Head(str) \in class
         THEN <<ch>> \o SubRuns(SkipRun(str, class), class, ch)
         ELSE <<Head(str)>> \o SubRuns(Tail(str), class, ch)

\* str(x) of a text cell: 'nan' for a missing one
str(x) == IF x = NaN THEN <<"n", "a", "n">> ELSE x

(***************************************************************************)
(* clean_quotes.py, clean_text, lines 15-32.                               *)
(***************************************************************************)
bad_chars(ch) ==
    IF ch \in {"ldquo", "rdquo", "bdquo", "laquo", "raquo"} THEN <<>>
    ELSE IF ch \in {"lsquo", "rsquo"} THEN <<"'">>
    ELSE IF ch \in {"mdash", "ndash"} THEN <<"-">>
    ELSE <<ch>>

RECURSIVE ReplaceBadChars(_)
ReplaceBadChars(text) ==
    IF text = <<>> THEN <<>> ELSE bad_chars(Head(text)) \o ReplaceBadChars(Tail(text))

clean_text(text) ==
    IF text = NaN THEN <<>>
    ELSE strip(SubRuns(ReplaceBadChars(text), Whitespace, " "))

(***************************************************************************)
(* DataFrame.drop_duplicates(subset=...), keep='first' by default: a row   *)
(* stays when no earlier row has its key.                                  *)
(***************************************************************************)
drop_duplicates(df, Key(_)) ==
    LET kept[i \in 0 .. Len(df)] ==
            IF i = 0 THEN <<>>
            ELSE IF \E j \in 1 .. i - 1 : Key(df[j]) = Key(df[i])
                 THEN kept[i - 1]
                 ELSE Append(kept[i - 1], df[i])
    IN  kept[Len(df)]

\* pd.to_numeric(errors='coerce') of a cell that holds a number or nothing
to_numeric(v) == IF IsNum(v) THEN v ELSE Null

InStock == <<"I", "n", " ", "S", "t", "o", "c", "k">>
OutOfStock == <<"O", "u", "t", " ", "o", "f", " ", "S", "t", "o", "c", "k">>
UnknownAuthor == <<"U", "n", "k", "n", "o", "w", "n">>

(***************************************************************************)
(* BooksCleaner.clean_data, clean_books.py lines 15-33; t is the time      *)
(* written to cleaned_at.                                                  *)
(***************************************************************************)
BooksCleanData(df, t) ==
    LET dedup == drop_duplicates(df, LAMBDA r : r.title)
    IN  [i \in DOMAIN dedup |->
            [title |-> dedup[i].title,
             price_gbp |-> to_numeric(dedup[i].price_gbp),
             availability |->
                 IF contains(lower(str(dedup[i].availability)), <<"s", "t", "o", "c", "k">>)
                 THEN InStock ELSE OutOfStock,
             cleaned_at |-> Num(t)]]

(***************************************************************************)
(* EcommerceCleaner.clean_data, clean_commerce.py lines 15-30.             *)
(***************************************************************************)
EcommerceCleanData(df, t) ==
    LET dedup == drop_duplicates(df, LAMBDA r : r.sku)
    IN  [i \in DOMAIN dedup |->
            [sku |-> dedup[i].sku,
             price |-> to_numeric(dedup[i].price),
             description |->
                 IF dedup[i].description = NaN THEN NaN
                 ELSE strip(SubRuns(dedup[i].description, {"\r", "\n"}, " ")),
             imported_at |-> Num(t)]]

(***************************************************************************)
(* QuotesCleaner.clean_data, clean_quotes.py lines 34-55: the text cells   *)
(* are cleaned first, the duplicates dropped after.                        *)
(***************************************************************************)
QuotesCleanData(df, t) ==
    LET cleaned == [i \in DOMAIN df |->
                       [text |-> clean_text(df[i].text),
                        author |-> IF df[i].author = NaN THEN UnknownAuthor
                                   ELSE strip(df[i].author),
                        tags |-> IF df[i].tags = NaN THEN <<>>
                                 ELSE strip(replace(lower(df[i].tags), <<" ", ",">>, <<",">>))]]
        dedup == drop_duplicates(cleaned, LAMBDA r : <<r.text, r.author>>)
    IN  [i \in DOMAIN dedup |-> dedup[i] @@ [cleaned_at |-> Num(t)]]

Domains == {"books", "quotes", "ecommerce"}

(***************************************************************************)
(* The CSV form of a data frame.  df.to_csv(index=False) writes a missing  *)
(* cell as an empty field; pd.read_csv reads an empty field as a missing   *)
(* cell, whatever was written.                                             *)
(***************************************************************************)
TextColumns ==
    {"title", "availability", "sku", "description", "text", "author", "tags",
     "nom", "adresse", "contact_id"}

to_csv(df) ==
    [i \in DOMAIN df |->
        [c \in DOMAIN df[i] |->
            IF c \in TextColumns /\ df[i][c] = NaN THEN <<>> ELSE df[i][c]]]

read_csv(data) ==
    [i \in DOMAIN data |->
        [c \in DOMAIN data[i] |->
            IF c \in TextColumns /\ data[i][c] = <<>> THEN NaN ELSE data[i][c]]]

\* pd.read_csv with its default on_bad_lines='error': a line that holds more
\* fields than the header (its surplus is under extra) raises ParserError
ParserError(data) == \E i \in DOMAIN data : "extra" \in DOMAIN data[i]

clean_data(domain, df, t) ==
    CASE domain = "books" -> BooksCleanData(df, t)
      [] domain = "ecommerce" -> EcommerceCleanData(df, t)
      [] domain = "quotes" -> QuotesCleanData(df, t)

(***************************************************************************)
(* Object keys of the scraped domains.  The scrapers name a raw object     *)
(* scraping/<domain>/<domain>_<YYYYMMDD_HHMMSS>.csv (quotes_scraper.py     *)
(* lines 64-66, ecommerce_scraper.py lines 135-136; books_scraper.py lines *)
(* 77-79 puts a random suffix between the stamp and the extension).        *)
(***************************************************************************)
DomainChars(domain) ==
    CASE domain = "books" -> <<"b", "o", "o", "k", "s">>
      [] domain = "quotes" -> <<"q", "u", "o", "t", "e", "s">>
      [] domain = "ecommerce" -> <<"e", "c", "o", "m", "m", "e", "r", "c", "e">>

source_prefix(domain) ==
    <<"s", "c", "r", "a", "p", "i", "n", "g", "/">> \o DomainChars(domain) \o <<"/">>

silver_prefix(domain) == DomainChars(domain) \o <<"/">>

DotCsv == <<".", "c", "s", "v">>
DotJson == <<".", "j", "s", "o", "n">>
CleanedCsv == <<"_", "c", "l", "e", "a", "n", "e", "d", ".", "c", "s", "v">>

Stamp20240101 == <<"2", "0", "2", "4", "0", "1", "0", "1", "_", "0", "0", "0", "0", "0", "0">>
Stamp20240102 == <<"2", "0", "2", "4", "0", "1", "0", "2", "_", "0", "0", "0", "0", "0", "0">>
Stamps == {Stamp20240101, Stamp20240102}

object_path(domain, stamp, extension) ==
    source_prefix(domain) \o DomainChars(domain) \o <<"_">> \o stamp \o extension

RawKeys(domain) == {object_path(domain, stamp, DotCsv) : stamp \in Stamps}

\* an object under the books prefix that is not a CSV export
BooksJsonKey == object_path("books", <<"2", "0", "2", "4", "0", "1", "0", "3", "_",
                                       "0", "0", "0", "0", "0", "0">>, DotJson)

(***************************************************************************)
(* The raw batches the scrapers upload.                                    *)
(***************************************************************************)
RawBatches(domain) ==
    CASE domain = "books" ->
           {<<[title |-> <<"a">>, price_gbp |-> Num(10),
               availability |-> <<"I", "n", " ", "s", "t", "o", "c", "k">>]>>}
      [] domain = "ecommerce" ->
           {<<[sku |-> <<"s", "1">>, price |-> Num(10), description |-> <<"d">>]>>}
      [] domain = "quotes" ->
           {<<[text |-> <<"ldquo", "h", "i", "rdquo">>, author |-> <<"a">>,
               tags |-> <<"t">>]>>}

(***************************************************************************)
(* The cleaners' run(): clean_books.py lines 35-79, clean_commerce.py      *)
(* lines 32-80, clean_quotes.py lines 57-100.  The bronze bucket is listed *)
(* under the domain's prefix, the last name of the sorted CSV names is     *)
(* read, cleaned and written to the silver bucket.  Any exception of the   *)
(* store ends the run with nothing written.                                *)
(***************************************************************************)
CsvFiles(bucket, prefix) ==
    {o.name : o \in {x \in list_objects(bucket, prefix) : endswith(x.name, DotCsv)}}

CleanerOutcome(store, domain, t) ==
    LET files == CsvFiles(store.bronze, source_prefix(domain))
    IN  IF files = {} THEN NoneResult
        ELSE LET latest_file == SortedLast(files)
                 df == read_csv(get_object(store.bronze, latest_file))
                 silver_filename == replace(LastSegment(latest_file), DotCsv, CleanedCsv)
             IN  IF ParserError(get_object(store.bronze, latest_file))
                 THEN [kind |-> "exception", raised |-> "read_csv"]
                 ELSE [kind |-> "cleaned",
                       latest_file |-> latest_file,
                       df |-> df,
                       silver_path |-> silver_prefix(domain) \o silver_filename,
                       df_cleaned |-> clean_data(domain, df, t)]

CleanerRun(domain, exception) ==
    LET outcome == CleanerOutcome(objects, domain, now)
    IN  /\ mtime < MaxPuts
        /\ IF exception \/ outcome.kind # "cleaned"
           THEN /\ lakeOut' = [op |-> "run", arg |-> domain,
                               result |-> IF exception
                                          THEN [kind |-> "exception", raised |-> "store"]
                                          ELSE outcome]
                /\ UNCHANGED <<objects, mtime>>
           ELSE /\ objects' = [objects EXCEPT !.silver =
                                  put_object(@, outcome.silver_path,
                                             to_csv(outcome.df_cleaned), mtime + 1)]
                /\ mtime' = mtime + 1
                /\ lakeOut' = [op |-> "run", arg |-> domain, result |-> outcome]
        /\ UNCHANGED <<catalogVars, clientVars, reads, aggOut, tables, load, uploaded, run>>

(***************************************************************************)
(* GoldLoader.get_latest_silver(prefix), data_to_postgre.py lines 33-36.   *)
(***************************************************************************)
Key(name) == [kind |-> "key", name |-> name]

get_latest_silver(store, prefix) ==
    LET files == {o.name : o \in {x \in list_objects(store.silver, prefix) :
                                     endswith(x.name, CleanedCsv)}}
    IN  IF files # {} THEN Key(SortedLast(files)) ELSE NoneResult

GetLatestSilver(domain) ==
    /\ lakeOut' = [op |-> "get_latest_silver", arg |-> domain,
                   result |-> get_latest_silver(objects, silver_prefix(domain))]
    /\ UNCHANGED <<catalogVars, clientVars, reads, aggOut, objects, mtime, tables,
                   load, uploaded, run>>

(***************************************************************************)
(* The scrapers uploading raw objects, the cleaners and the loader's       *)
(* selection of the cleaned object.                                        *)
(***************************************************************************)
NextClean ==
    \/ \E domain \in Domains, s3error \in BOOLEAN :
           \E key \in RawKeys(domain), df \in RawBatches(domain) :
               UploadExport(df, key, s3error)
    \/ \E s3error \in BOOLEAN : UploadExport(<<>>, BooksJsonKey, s3error)
    \/ \E domain \in Domains, exception \in BOOLEAN : CleanerRun(domain, exception)
    \/ \E domain \in Domains : GetLatestSilver(domain)

SpecClean == Init /\ [][NextClean]_vars

(***************************************************************************)
(* The partners domain.  get_librairies.py lines 20-22 names the raw       *)
(* workbook adresses/partenaire_librairies_<YYYYMMDD_HHMMSS>.xlsx;         *)
(* librairies_geo.py line 66 names the cleaned object                      *)
(* partners/librairies_cleaned_<YYYYMMDD>.csv after the day of the run.    *)
(***************************************************************************)
PartenaireLibrairies ==
    <<"p", "a", "r", "t", "e", "n", "a", "i", "r", "e", "_",
      "l", "i", "b", "r", "a", "i", "r", "i", "e", "s">>
LibrairiesCleaned ==
    <<"l", "i", "b", "r", "a", "i", "r", "i", "e", "s", "_",
      "c", "l", "e", "a", "n", "e", "d">>
DotXlsx == <<".", "x", "l", "s", "x">>

partner_object_path(stamp) ==
    <<"a", "d", "r", "e", "s", "s", "e", "s", "/">> \o PartenaireLibrairies
        \o <<"_">> \o stamp \o DotXlsx

PartnerKeys == {partner_object_path(stamp) : stamp \in Stamps}

\* strftime('%Y%m%d') of the clock: the days from 20240101 on
Day(t) == t \div TicksPerDay

strftime_Ymd(t) == <<"2", "0", "2", "4", "0", "1", "0", AsciiOrder[Day(t) + 4]>>

partner_silver_path(t) ==
    <<"p", "a", "r", "t", "n", "e", "r", "s", "/">> \o LibrairiesCleaned
        \o <<"_">> \o strftime_Ymd(t) \o DotCsv

\* max(files, key=lambda x: x['modified'])['name']; the store stamps every
\* put with a later time
LatestModified(files) ==
    (CHOOSE f \in files : \A g \in files : g.modified <= f.modified).name

\* hashlib.sha256(str(x).encode()).hexdigest()[:12]: a function of the email
contact_id(email) == <<"#">> \o email

(***************************************************************************)
(* apply_rgpd, librairies_geo.py lines 30-39, after the geocoding of lines *)
(* 15-28 and 59: lat and lon are the coordinates the address API gave, or  *)
(* missing when it gave none.                                              *)
(***************************************************************************)
to_drop == {"contact_nom", "contact_email", "contact_telephone"}

\* a row that is stripped of contact_email and contact_telephone only
PartnerCleanRowKeepingName(r, lat_lon) ==
    LET geocoded == [lat |-> lat_lon, lon |-> lat_lon] @@ r
        hashed == IF "contact_email" \in DOMAIN r
                  THEN [contact_id |-> IF r.contact_email = NaN THEN NaN
                                       ELSE contact_id(r.contact_email)] @@ geocoded
                  ELSE geocoded
    IN  [c \in DOMAIN hashed \ (to_drop \ {"contact_nom"}) |-> hashed[c]]

\* lines 59 and 62: the columns lat and lon are set, contact_id is added
\* when there is a contact_email column, and the columns of to_drop that the
\* frame has are dropped; every other column stays as it was read
PartnerCleanRow(r, lat_lon) ==
    LET geocoded == [lat |-> lat_lon, lon |-> lat_lon] @@ r
        hashed == IF "contact_email" \in DOMAIN r
                  THEN [contact_id |-> IF r.contact_email = NaN THEN NaN
                                       ELSE contact_id(r.contact_email)] @@ geocoded
                  ELSE geocoded
    IN  [c \in DOMAIN hashed \ to_drop |-> hashed[c]]

PartnerBatches ==
    {<<[nom |-> <<"l", "1">>, adresse |-> <<"r", "u", "e">>, contact_nom |-> <<"n">>,
        contact_email |-> <<"e", "1">>, contact_telephone |-> <<"0", "1">>]>>,
     <<[nom |-> <<"l", "1">>, adresse |-> <<"r", "u", "e">>, contact_nom |-> <<"n">>,
        contact_email |-> <<"e", "1">>, contact_telephone |-> <<"0", "1">>],
       [nom |-> <<"l", "2">>, adresse |-> <<"q", "u", "a", "i">>, contact_nom |-> <<"m">>,
        contact_email |-> NaN, contact_telephone |-> <<"0", "2">>]>>}

(***************************************************************************)
(* PartnerCleaner.process_to_silver, librairies_geo.py lines 41-75.        *)
(***************************************************************************)
process_to_silver(store, t, lat_lon) ==
    LET files == list_exports(store, "bronze")
        partner_files == {f \in files : contains(f.name, PartenaireLibrairies)}
    IN  IF partner_files = {} THEN NoneResult
        ELSE LET latest_file == LatestModified(partner_files)
                 df == get_object(store.bronze, latest_file)
             IN  [kind |-> "cleaned",
                  latest_file |-> latest_file,
                  df |-> df,
                  silver_path |-> partner_silver_path(t),
                  df_cleaned |-> [i \in DOMAIN df |-> PartnerCleanRow(df[i], lat_lon)]]

ProcessToSilver(lat_lon) ==
    LET outcome == process_to_silver(objects, now, lat_lon)
    IN  /\ mtime < MaxPuts
        /\ IF outcome = NoneResult
           THEN UNCHANGED <<objects, mtime>>
           ELSE /\ objects' = [objects EXCEPT !.silver =
                                  put_object(@, outcome.silver_path,
                                             to_csv(outcome.df_cleaned), mtime + 1)]
                /\ mtime' = mtime + 1
        /\ lakeOut' = [op |-> "process_to_silver", arg |-> <<>>, result |-> outcome]
        /\ UNCHANGED <<catalogVars, clientVars, reads, aggOut, tables, load, uploaded, run>>

(***************************************************************************)
(* The object a loader selects.  GoldLoader.load_table takes               *)
(* get_latest_silver(prefix) (data_to_postgre.py line 39);                 *)
(* PostgresLoader.load_partners_to_gold takes the most recently modified   *)
(* object whose name holds "librairies_cleaned" (librairies_to_postgre.py  *)
(* lines 29-37).                                                           *)
(***************************************************************************)
latest_silver(store) ==
    LET files == list_exports(store, "silver")
        partner_files == {f \in files : contains(f.name, LibrairiesCleaned)}
    IN  IF partner_files = {} THEN NoneResult ELSE Key(LatestModified(partner_files))

TableOf(domain) ==
    CASE domain = "books" -> "fact_books"
      [] domain = "quotes" -> "fact_quotes"
      [] domain = "ecommerce" -> "fact_products"
      [] domain = "partners" -> "dim_partners"

SelectedSilver(store, domain) ==
    IF domain = "partners" THEN latest_silver(store)
    ELSE get_latest_silver(store, silver_prefix(domain))

(***************************************************************************)
(* A warehouse load: GoldLoader.load_table, data_to_postgre.py lines       *)
(* 38-54, and PostgresLoader.load_partners_to_gold, librairies_to_postgre  *)
(* .py lines 25-62.  df.to_sql(table, engine, if_exists="replace") runs in *)
(* one transaction of the engine: the table is dropped and created again,  *)
(* the rows are inserted, and the transaction commits when to_sql returns  *)
(* or rolls back when it raises.  PostgreSQL's DDL is transactional, so    *)
(* other sessions read the committed table until the commit.  load holds   *)
(* the call's position and its transaction's uncommitted rows; before is   *)
(* the committed table when the call started, kept for the checks.         *)
(***************************************************************************)
if_exists_append(existing) == IF existing = Missing THEN <<>> ELSE existing

\* if_exists="replace": the new table starts empty
if_exists_replace(existing) == <<>>

KeepUncommitted(committed, work) == work

\* the table after a transaction that did not commit
Rollback(committed, work) == committed

LoadDomains == {"books", "partners"}

LoadCallRaisesOnNone(domain) ==
    LET selected == SelectedSilver(objects, domain)
    IN  /\ load = NoLoad
        /\ IF selected = NoneResult
           THEN /\ lakeOut' = [op |-> "load", arg |-> domain, result |-> [kind |-> "raised"]]
                /\ UNCHANGED load
           ELSE /\ load' = [pc |-> "get_object", domain |-> domain,
                            table |-> TableOf(domain), file_path |-> selected.name,
                            df |-> <<>>, work |-> <<>>, inserted |-> 0,
                            before |-> tables[TableOf(domain)]]
                /\ UNCHANGED lakeOut
        /\ UNCHANGED <<catalogVars, clientVars, reads, aggOut, objects, mtime, tables,
                       uploaded>>

\* the call's first lines: no cleaned object, no load ("Skip")
LoadCall(domain) ==
    LET selected == SelectedSilver(objects, domain)
    IN  /\ load = NoLoad
        /\ IF selected = NoneResult
           THEN /\ lakeOut' = [op |-> "load", arg |-> domain, result |-> [kind |-> "skip"]]
                /\ UNCHANGED load
           ELSE /\ load' = [pc |-> "get_object", domain |-> domain,
                            table |-> TableOf(domain), file_path |-> selected.name,
                            df |-> <<>>, work |-> <<>>, inserted |-> 0,
                            before |-> tables[TableOf(domain)]]
                /\ UNCHANGED lakeOut
        /\ UNCHANGED <<catalogVars, clientVars, reads, aggOut, objects, mtime, tables,
                       uploaded>>

\* a load called on its own
LoadStart(domain) ==
    /\ LoadCall(domain)
    /\ UNCHANGED run

\* the call ends on an exception raised at the given step: load_table lets
\* it out; load_partners_to_gold catches what to_sql and the count raise
LoadFails(step) ==
    /\ tables' = [tables EXCEPT ![load.table] =
                     IF step \in {"to_sql", "insert", "commit"}
                     THEN Rollback(@, load.work) ELSE @]
    /\ lakeOut' = [op |-> "load", arg |-> load.domain,
                   result |-> [kind |-> IF load.domain = "partners"
                                           /\ step # "get_object"
                                        THEN "caught" ELSE "raised",
                               step |-> step, file_path |-> load.file_path,
                               inserted |-> load.inserted, before |-> load.before]]
    /\ load' = NoLoad

LoadGetObject(exception) ==
    /\ load.pc = "get_object"
    /\ IF exception THEN LoadFails("get_object")
       ELSE /\ load' = [load EXCEPT !.pc = "to_sql",
                                    !.df = read_csv(get_object(objects.silver,
                                                               load.file_path))]
            /\ UNCHANGED <<tables, lakeOut>>
    /\ UNCHANGED <<catalogVars, clientVars, reads, aggOut, objects, mtime, uploaded, run>>

\* DROP TABLE without CASCADE is refused while a view selects from the table
DependentViews(table) == {v \in tables.pg_views : v.table = table}

ToSqlReplace(exception) ==
    /\ load.pc = "to_sql"
    /\ IF exception \/ DependentViews(load.table) # {} THEN LoadFails("to_sql")
       ELSE /\ load' = [load EXCEPT !.pc = "insert",
                                    !.work = if_exists_replace(tables[load.table])]
            /\ UNCHANGED <<tables, lakeOut>>
    /\ UNCHANGED <<catalogVars, clientVars, reads, aggOut, objects, mtime, uploaded, run>>

ToSqlInsert(exception) ==
    /\ load.pc = "insert"
    /\ load.inserted < Len(load.df)
    /\ IF exception THEN LoadFails("insert")
       ELSE /\ load' = [load EXCEPT !.work = Append(@, load.df[load.inserted + 1]),
                                    !.inserted = @ + 1]
            /\ UNCHANGED <<tables, lakeOut>>
    /\ UNCHANGED <<catalogVars, clientVars, reads, aggOut, objects, mtime, uploaded, run>>

ToSqlCommit(exception) ==
    /\ load.pc = "insert"
    /\ load.inserted = Len(load.df)
    /\ IF exception THEN LoadFails("commit")
       ELSE /\ tables' = [tables EXCEPT ![load.table] = load.work]
            /\ load' = [load EXCEPT !.pc = "count"]
            /\ UNCHANGED lakeOut
    /\ UNCHANGED <<catalogVars, clientVars, reads, aggOut, objects, mtime, uploaded, run>>

\* SELECT COUNT(*) of the table, after to_sql returned
LoadCount(exception) ==
    /\ load.pc = "count"
    /\ IF exception THEN LoadFails("count")
       ELSE /\ lakeOut' = [op |-> "load", arg |-> load.domain,
                           result |-> [kind |-> "loaded", file_path |-> load.file_path,
                                       count |-> Len(tables[load.table]),
                                       before |-> load.before]]
            /\ load' = NoLoad
            /\ UNCHANGED tables
    /\ UNCHANGED <<catalogVars, clientVars, reads, aggOut, objects, mtime, uploaded, run>>

(***************************************************************************)
(* The books and partners domains from the upload of a raw object to the   *)
(* warehouse table.                                                        *)
(***************************************************************************)
SnapshotBatches ==
    {<<[title |-> <<"a">>, price_gbp |-> Num(10),
        availability |-> <<"I", "n", " ", "s", "t", "o", "c", "k">>]>>,
     <<[title |-> <<"b">>, price_gbp |-> Num(12),
        availability |-> <<"I", "n", " ", "s", "t", "o", "c", "k">>],
       [title |-> <<"c">>, price_gbp |-> Null, availability |-> NaN]>>}

\* the object store changes between two loads, one load runs at a time
NextLoad ==
    \/ /\ load = NoLoad
       /\ \E key \in RawKeys("books"), df \in SnapshotBatches : UploadExport(df, key, FALSE)
    \/ /\ load = NoLoad
       /\ CleanerRun("books", FALSE)
    \/ /\ load = NoLoad
       /\ \E df \in PartnerBatches :
              UploadExport(df, partner_object_path(Stamp20240101), FALSE)
    \/ /\ load = NoLoad
       /\ ProcessToSilver(Num(48))
    \/ \E domain \in LoadDomains : LoadStart(domain)
    \/ \E exception \in BOOLEAN : LoadGetObject(exception)
    \/ \E exception \in BOOLEAN : ToSqlReplace(exception)
    \/ \E exception \in BOOLEAN : ToSqlInsert(exception)
    \/ \E exception \in BOOLEAN : ToSqlCommit(exception)
    \/ \E exception \in BOOLEAN : LoadCount(exception)

SpecLoad == Init /\ [][NextLoad]_vars

(***************************************************************************)
(* Checks of the warehouse loads.                                          *)
(***************************************************************************)
LoadEnded(kinds) ==
    /\ load = NoLoad
    /\ lakeOut.op = "load"
    /\ lakeOut.result.kind \in kinds

\* C13: after a load that succeeded, the table holds exactly the rows of
\* the cleaned object that load selected, in the object's order, and no row
\* of the snapshot the table held before; the count the load reports is the
\* number of rows of that object.
C13_TableIsLatestSnapshot ==
    LoadEnded({"loaded"})
        => LET selected == SelectedSilver(objects, lakeOut.arg)
               snapshot == read_csv(get_object(objects.silver, selected.name))
           IN  /\ selected # NoneResult
               /\ lakeOut.result.file_path = selected.name
               /\ tables[TableOf(lakeOut.arg)] = snapshot
               /\ lakeOut.result.count = Len(snapshot)

\* a table that held a snapshot of two rows holds one row after the load of
\* a snapshot of one row
C13_Witness ==
    /\ LoadEnded({"loaded"})
    /\ lakeOut.result.before # Missing
    /\ Len(lakeOut.result.before) = 2
    /\ lakeOut.result.count = 1
    /\ Len(tables[TableOf(lakeOut.arg)]) = 1

RawMatching(domain) ==
    {n \in Names(objects.bronze) :
        startswith(n, source_prefix(domain)) /\ endswith(n, DotCsv)}

CleanedMatching(domain) ==
    {n \in Names(objects.silver) :
        startswith(n, silver_prefix(domain)) /\ endswith(n, CleanedCsv)}

IsLexicographicMax(name, names) ==
    name \in names /\ \A other \in names : other = name \/ StrLess(other, name)

ModifiedOf(bucket, name) == (CHOOSE o \in bucket : o.name = name).modified

\* C11: for books, quotes and ecommerce, the cleaner's run() reads the raw
\* object whose key is the lexicographic maximum of the CSV keys under the
\* domain's prefix in the bucket as it is at that run, and get_latest_silver
\* returns the lexicographic maximum of the cleaned keys; with the books
\* objects of 20240101_000000 and 20240102_000000 both present the second is
\* read.
C11_LatestIsLexicographicMax ==
    /\ lakeOut.op = "run"
           => /\ lakeOut.result.kind = "None" => RawMatching(lakeOut.arg) = {}
              /\ lakeOut.result.kind = "cleaned"
                     => /\ IsLexicographicMax(lakeOut.result.latest_file,
                                              RawMatching(lakeOut.arg))
                        /\ lakeOut.result.df
                               = read_csv(get_object(objects.bronze,
                                                     lakeOut.result.latest_file))
                        /\ ( /\ lakeOut.arg = "books"
                             /\ {object_path("books", Stamp20240101, DotCsv),
                                 object_path("books", Stamp20240102, DotCsv)}
                                    \subseteq Names(objects.bronze) )
                               => lakeOut.result.latest_file
                                      = object_path("books", Stamp20240102, DotCsv)
    /\ lakeOut.op = "get_latest_silver"
           => IF CleanedMatching(lakeOut.arg) = {}
              THEN lakeOut.result = NoneResult
              ELSE /\ lakeOut.result.kind = "key"
                   /\ IsLexicographicMax(lakeOut.result.name, CleanedMatching(lakeOut.arg))

\* C11 witness: the books cleaner ran while the bucket held the raw objects of
\* 20240101 and 20240102, the older-named one having been uploaded last, and
\* it read the object of 20240102.
C11_Witness ==
    /\ lakeOut.op = "run"
    /\ lakeOut.arg = "books"
    /\ lakeOut.result.kind = "cleaned"
    /\ {object_path("books", Stamp20240101, DotCsv),
        object_path("books", Stamp20240102, DotCsv)} \subseteq Names(objects.bronze)
    /\ ModifiedOf(objects.bronze, object_path("books", Stamp20240101, DotCsv))
           > ModifiedOf(objects.bronze, object_path("books", Stamp20240102, DotCsv))
    /\ lakeOut.result.latest_file = object_path("books", Stamp20240102, DotCsv)

(***************************************************************************)
(* clean_data applied to batches drawn from a bounded set: every sequence  *)
(* of at most MaxRows rows of the domain.                                  *)
(***************************************************************************)
MaxRows == 3

BatchRows(domain) ==
    CASE domain = "books" ->
           {[title |-> title, price_gbp |-> price,
             availability |-> <<"I", "n", " ", "s", "t", "o", "c", "k">>] :
                title \in {<<"a">>, <<"b">>}, price \in {Num(10), Num(12)}}
      [] domain = "ecommerce" ->
           {[sku |-> s, price |-> price, description |-> <<"d", "\n">>] :
                s \in {<<"s", "1">>, <<"s", "2">>}, price \in {Num(10), Num(12)}}
      [] domain = "quotes" ->
           {[text |-> text, author |-> <<"a">>, tags |-> tags] :
                text \in {<<"ldquo", "h", "i", "rdquo">>, <<"h", "i">>, <<"y", "o">>},
                tags \in {<<"t">>, <<"T", " ", ",", "u">>}}

SeqsUpTo(S, n) == UNION {[1 .. k -> S] : k \in 0 .. n}

InitCleanData ==
    /\ products = <<>>
    /\ price_history = <<>>
    /\ scraping_logs = <<>>
    /\ nextId = 1
    /\ now = 0
    /\ lastUpsert = [k \in Keys |-> NoUpsert]
    /\ pc = [c \in Clients |-> "idle"]
    /\ arg = [c \in Clients |-> <<>>]
    /\ ret = [c \in Clients |-> NotCalled]
    /\ reads = <<>>
    /\ aggOut = NoCall
    /\ objects = [bronze |-> {}, silver |-> {}]
    /\ mtime = 0
    /\ tables = NoTables
    /\ load = NoLoad
    /\ uploaded = <<>>
    /\ run = NoRun
    /\ \E domain \in Domains :
           \E df \in SeqsUpTo(BatchRows(domain), MaxRows) :
               lakeOut = [op |-> "read_csv", arg |-> domain, result |-> df]

\* df_cleaned = self.clean_data(df), clean_books.py line 61
CleanData(domain) ==
    /\ lakeOut.op = "read_csv"
    /\ lakeOut.arg = domain
    /\ lakeOut' = [op |-> "clean_data", arg |-> domain,
                   result |-> [df |-> lakeOut.result,
                               df_cleaned |-> clean_data(domain, lakeOut.result, now)]]
    /\ UNCHANGED <<catalogVars, clientVars, reads, aggOut, objects, mtime, tables,
                   load, uploaded, run>>

NextCleanData == \E domain \in Domains : CleanData(domain)

SpecCleanData == InitCleanData /\ [][NextCleanData]_vars

(***************************************************************************)
(* Checks of clean_data.                                                   *)
(***************************************************************************)
\* the natural key of an input row, as clean_data compares it
NaturalKey(domain, r) ==
    CASE domain = "books" -> r.title
      [] domain = "ecommerce" -> r.sku
      [] domain = "quotes" -> <<clean_text(r.text), strip(r.author)>>

CleanedKey(domain, r) ==
    CASE domain = "books" -> r.title
      [] domain = "ecommerce" -> r.sku
      [] domain = "quotes" -> <<r.text, r.author>>

\* the cells of a row that are not part of its key
Payload(domain, r) ==
    CASE domain = "books" -> r.price_gbp
      [] domain = "ecommerce" -> r.price
      [] domain = "quotes" -> strip(replace(lower(r.tags), <<" ", ",">>, <<",">>))

LastWithKey(domain, df, k) == Max({i \in DOMAIN df : NaturalKey(domain, df[i]) = k})

\* C12: for every input batch, clean_data of each domain outputs exactly one
\* row per distinct natural key (books: title, ecommerce: sku, quotes: text
\* and author), and that row is the last row with that key in the input.
C12_OneRowPerKeyLastWins ==
    lakeOut.op = "clean_data"
        => LET domain == lakeOut.arg
               df == lakeOut.result.df
               out == lakeOut.result.df_cleaned
           IN  /\ {CleanedKey(domain, out[i]) : i \in DOMAIN out}
                      = {NaturalKey(domain, df[i]) : i \in DOMAIN df}
               /\ \A i, j \in DOMAIN out :
                      CleanedKey(domain, out[i]) = CleanedKey(domain, out[j]) => i = j
               /\ \A i \in DOMAIN out :
                      Payload(domain, out[i])
                          = Payload(domain,
                                    df[LastWithKey(domain, df, CleanedKey(domain, out[i]))])

(***************************************************************************)
(* GoldLoader.run, data_to_postgre.py lines 56-60: clean_all_views, then   *)
(* load_table for books, quotes and ecommerce, one call after the other    *)
(* with no handler around any of them.  run holds the position of the run, *)
(* the calls still to make, the calls made, the calls that raised, and the *)
(* run's list of errors (the loader keeps none).                           *)
(***************************************************************************)
GoldSteps == <<"books", "quotes", "ecommerce">>

GoldRunStart ==
    /\ run = NoRun
    /\ load = NoLoad
    /\ run' = [kind |-> "gold", pc |-> "clean_all_views", todo |-> GoldSteps,
               called |-> <<>>, raised |-> <<>>, errors |-> <<>>]
    /\ UNCHANGED <<catalogVars, clientVars, reads, aggOut, objects, mtime, tables, load,
                   lakeOut, uploaded>>

\* clean_all_views, lines 19-31: every view of pg_views is dropped in one
\* transaction, or the engine raises and none is
GoldCleanViews(exception) ==
    /\ run.pc = "clean_all_views"
    /\ run' = [run EXCEPT !.pc = IF exception THEN "raised" ELSE "load_table"]
    /\ tables' = IF exception THEN tables ELSE [tables EXCEPT !.pg_views = {}]
    /\ UNCHANGED <<catalogVars, clientVars, reads, aggOut, objects, mtime, load,
                   lakeOut, uploaded>>

GoldLoadTable ==
    /\ run.pc = "load_table"
    /\ LoadCall(Head(run.todo))
    /\ run' = [run EXCEPT !.pc = "wait", !.todo = Tail(@),
                          !.called = Append(@, Head(run.todo))]

\* load_table has returned or raised: an exception leaves run() at once
GoldLoadReturns ==
    /\ run.pc = "wait"
    /\ load = NoLoad
    /\ run' = IF lakeOut.result.kind = "raised"
              THEN [run EXCEPT !.pc = "raised", !.raised = Append(@, lakeOut.arg)]
              ELSE [run EXCEPT !.pc = IF run.todo = <<>> THEN "returned"
                                      ELSE "load_table"]
    /\ UNCHANGED <<catalogVars, clientVars, reads, aggOut, objects, mtime, tables, load,
                   lakeOut, uploaded>>

(***************************************************************************)
(* EcommercePipeline.run, pipeline.py lines 140-242, on a pipeline just    *)
(* constructed (stats of lines 67-71).  The scraper's                      *)
(* get_all_category_urls and scrape_category reach the network: they give  *)
(* their result or raise.                                                  *)
(***************************************************************************)
CategoryUrls == <<[category |-> "x", subcategory |-> "laptops"],
                  [category |-> "y", subcategory |-> "touch"]>>

Subcategories == {CategoryUrls[i].subcategory : i \in DOMAIN CategoryUrls}

\* lines 178-183: the urls whose subcategory is asked for; None or an empty
\* list asks for all
FilterUrls(urls, categories) ==
    IF categories = {} THEN urls
    ELSE SelectSeq(urls, LAMBDA u : u.subcategory \in categories)

\* the products scrape_category yields for a category
Scraped(category) ==
    {<<>>,
     <<ProductDict(IF category = "x" THEN "A" ELSE "B", category, Num(10), Num(3),
                   sku(IF category = "x" THEN "A" ELSE "B"), Null)>>}

ErrorOf(step, title) == [step |-> step, title |-> title]

PipelineRunStart(categories) ==
    /\ run = NoRun
    /\ run' = [kind |-> "pipeline", pc |-> "get_all_category_urls",
               categories |-> categories, urls |-> <<>>, products |-> <<>>,
               scraped |-> <<>>,
               stats |-> [products_scraped |-> 0, errors |-> <<>>],
               upserts |-> [stored |-> 0, failed |-> 0],
               e |-> ErrorOf("", "")]
    /\ UNCHANGED <<catalogVars, clientVars, reads, aggOut, objects, mtime, tables, load,
                   lakeOut, uploaded>>

\* line 175
GetAllCategoryUrls(exception) ==
    /\ run.pc = "get_all_category_urls"
    /\ run' = IF exception
              THEN [run EXCEPT !.pc = "except", !.e = ErrorOf("get_all_category_urls", "")]
              ELSE [run EXCEPT !.pc = "for", !.urls = FilterUrls(CategoryUrls, run.categories)]
    /\ UNCHANGED <<catalogVars, clientVars, reads, aggOut, objects, mtime, tables, load,
                   lakeOut, uploaded>>

\* lines 186-197: the next category is scraped inside the try of line 173
ScrapeCategory(exception) ==
    /\ run.pc = "for"
    /\ run.products = <<>>
    /\ run.urls # <<>>
    /\ \E yielded \in Scraped(Head(run.urls).category) :
          run' = IF exception
                 THEN [run EXCEPT !.pc = "except",
                                  !.e = ErrorOf("scrape_category", Head(run.urls).subcategory)]
                 ELSE [run EXCEPT !.urls = Tail(@), !.products = yielded,
                                  !.scraped = Append(@, Head(run.urls).subcategory)]
    /\ UNCHANGED <<catalogVars, clientVars, reads, aggOut, objects, mtime, tables, load,
                   lakeOut, uploaded>>

(***************************************************************************)
(* process_product, lines 88-138.  failure names the call that raised:     *)
(* download_image or upload_image before anything is stored, or            *)
(* record_price after upsert_product.  What download_image, upload_image   *)
(* or record_price raise is caught at line 134 and put in stats["errors"]. *)
(* upsert_product keeps its own errors to itself: when update_one raises   *)
(* (failure "upsert_product", or the duplicate sku the index refuses) it   *)
(* returns None, and process_product goes on with record_price and the     *)
(* count.  The field upserts counts the upserts the store applied and      *)
(* those it did not.                                                       *)
(***************************************************************************)
ProcessFailures == {"none", "download_image", "upsert_product", "record_price"}

ProcessProduct(failure) ==
    LET product == Head(run.products)
        w == update_one(products, nextId, Filter(product), Stamped(product, now))
        stored == failure \notin {"download_image", "upsert_product"}
        recorded == failure \in {"none", "upsert_product"}
        applied == stored /\ ~w.error
    IN  /\ run.pc = "for"
        /\ run.products # <<>>
        /\ stored => w.nid <= MaxDocs + 1
        /\ recorded => Len(price_history) < MaxHist
        /\ products' = IF stored THEN w.coll ELSE products
        /\ nextId' = IF stored THEN w.nid ELSE nextId
        /\ lastUpsert' = IF stored THEN Applied(w, product, lastUpsert) ELSE lastUpsert
        /\ price_history' = IF recorded
                            THEN InsertPoint(price_history,
                                             PricePoint(product.sku, product.price, now))
                            ELSE price_history
        /\ run' = [run EXCEPT
                     !.products = Tail(@),
                     !.upserts = IF applied THEN [@ EXCEPT !.stored = @ + 1]
                                 ELSE IF failure # "download_image"
                                 THEN [@ EXCEPT !.failed = @ + 1]
                                 ELSE @,
                     !.stats = IF recorded
                               THEN [@ EXCEPT !.products_scraped = @ + 1]
                               ELSE [@ EXCEPT !.errors =
                                         Append(@, ErrorOf(failure, product.title))]]
        /\ UNCHANGED <<scraping_logs, now, clientVars, reads, aggOut, objects, mtime,
                       tables, load, lakeOut, uploaded>>

\* lines 212-220: the log of the run that reached the end of the loop; what
\* log_scraping_run raises is caught by the handler of line 222
LogSuccess(exception) ==
    /\ run.pc = "for"
    /\ run.products = <<>>
    /\ run.urls = <<>>
    /\ IF exception
       THEN /\ run' = [run EXCEPT !.pc = "except", !.e = ErrorOf("log_scraping_run", "")]
            /\ UNCHANGED scraping_logs
       ELSE /\ Len(scraping_logs) < MaxLogs
            /\ scraping_logs' = Append(scraping_logs,
                                       LogEntry(now, "success", run.stats.products_scraped,
                                                run.stats.errors))
            /\ run' = [run EXCEPT !.pc = "returned"]
    /\ UNCHANGED <<products, price_history, nextId, now, lastUpsert, clientVars, reads,
                   aggOut, objects, mtime, tables, load, lakeOut, uploaded>>

\* lines 222-232: the handler logs the failed run; what log_scraping_run
\* raises here leaves run() after the finally block of lines 234-239
LogFailed(exception) ==
    /\ run.pc = "except"
    /\ IF exception
       THEN /\ run' = [run EXCEPT !.pc = "raised"]
            /\ UNCHANGED scraping_logs
       ELSE /\ Len(scraping_logs) < MaxLogs
            /\ scraping_logs' = Append(scraping_logs,
                                       LogEntry(now, "failed", run.stats.products_scraped,
                                                <<run.e>> \o run.stats.errors))
            /\ run' = [run EXCEPT !.pc = "returned"]
    /\ UNCHANGED <<products, price_history, nextId, now, lastUpsert, clientVars, reads,
                   aggOut, objects, mtime, tables, load, lakeOut, uploaded>>

(***************************************************************************)
(* One run of the loader, after the cleaners have put cleaned objects in   *)
(* the silver bucket.                                                      *)
(***************************************************************************)
NextGold ==
    \/ /\ run = NoRun
       /\ \E domain \in Domains :
             \E key \in {object_path(domain, Stamp20240101, DotCsv)},
                df \in RawBatches(domain) : UploadExport(df, key, FALSE)
    \/ /\ run = NoRun
       /\ \E domain \in Domains : CleanerRun(domain, FALSE)
    \/ GoldRunStart
    \/ \E exception \in BOOLEAN : GoldCleanViews(exception)
    \/ GoldLoadTable
    \/ \E exception \in BOOLEAN : LoadGetObject(exception)
    \/ \E exception \in BOOLEAN : ToSqlReplace(exception)
    \/ \E exception \in BOOLEAN : ToSqlInsert(exception)
    \/ \E exception \in BOOLEAN : ToSqlCommit(exception)
    \/ \E exception \in BOOLEAN : LoadCount(exception)
    \/ GoldLoadReturns

SpecGold == Init /\ [][NextGold]_vars

(***************************************************************************)
(* One run of the pipeline on an empty catalog.                            *)
(***************************************************************************)
NextPipeline ==
    \/ \E categories \in SUBSET Subcategories : PipelineRunStart(categories)
    \/ \E exception \in BOOLEAN : GetAllCategoryUrls(exception)
    \/ \E exception \in BOOLEAN : ScrapeCategory(exception)
    \/ \E failure \in ProcessFailures : ProcessProduct(failure)
    \/ \E exception \in BOOLEAN : LogSuccess(exception)
    \/ \E exception \in BOOLEAN : LogFailed(exception)

SpecPipeline == Init /\ [][NextPipeline]_vars

(***************************************************************************)
(* Checks of the runs.                                                     *)
(***************************************************************************)
RunEnded == run.pc \in {"returned", "raised"}

Elements(q) == {q[i] : i \in DOMAIN q}

\* C15: when a run has ended, every step of it was executed and every step
\* that failed is in the run's error list: the loader called load_table for
\* books, quotes and ecommerce whatever one of the calls raised, and the
\* pipeline scraped every category it was asked for whatever one scrape
\* raised.
C15_StepFailureDoesNotAbort ==
    RunEnded
        => /\ run.kind = "gold" /\ run.called # <<>>
                  => /\ run.called = GoldSteps
                     /\ Elements(run.raised) \subseteq Elements(run.errors)
           /\ run.kind = "pipeline" /\ run.e.step # "get_all_category_urls"
                  => run.scraped
                         = [i \in DOMAIN FilterUrls(CategoryUrls, run.categories) |->
                               FilterUrls(CategoryUrls, run.categories)[i].subcategory]

\* C16: every logged run is classified exactly: its status is success if and
\* only if its error list is empty, it is partial when something failed
\* after at least one step had executed, and it is failed only when no step
\* executed and no product was processed.
C16_StatusClassifiesRun ==
    run.pc # "idle" /\ run.kind = "pipeline"
        => \A i \in DOMAIN scraping_logs :
              LET entry == scraping_logs[i]
              IN  /\ entry.status \in {"success", "partial", "failed"}
                  /\ entry.status = "success" <=> entry.errors = <<>>
                  /\ entry.errors # <<>> /\ run.scraped # <<>>
                         => entry.status = "partial"
                  /\ entry.status = "failed"
                         => run.scraped = <<>> /\ entry.products_scraped = 0

\* C19: the pipeline's run() never ends by an exception: whatever failed
\* during the run, the write of the run's log included, the run returns.
C19_RunNeverRaises ==
    run.pc # "idle" /\ run.kind = "pipeline" => run.pc # "raised"

(***************************************************************************)
(* upsert_product with dicts that hold no title, among the others.         *)
(***************************************************************************)
MissingTitleInputs ==
    {ProductDict(Absent, c, p, Num(3), Absent, Null) : c \in {"x", Absent}, p \in Prices}

NextMissingTitle ==
    \/ \E product \in ProductInputs \cup MissingTitleInputs : UpsertProduct(product)
    \/ DeleteAllProducts

SpecMissingTitle == Init /\ [][NextMissingTitle]_vars

\* C18: an upsert_product without a title writes nothing: no stored document
\* has a null title, and no call without a title was applied as an insert
\* or an update.
C18_MissingTitleRejected ==
    /\ \A i \in DOMAIN products : products[i].title # NullStr
    /\ \A k \in Keys : k[1] = NullStr => lastUpsert[k] = NoUpsert

(***************************************************************************)
(* The partners domain: uploads of the partners' file under the names of   *)
(* two imports, the cleaner on two days, the load of dim_partners.         *)
(***************************************************************************)
NextPartners ==
    \/ /\ load = NoLoad
       /\ \E key \in PartnerKeys, df \in PartnerBatches : UploadExport(df, key, FALSE)
    \/ /\ load = NoLoad
       /\ \E lat_lon \in {Null, Num(48)} : ProcessToSilver(lat_lon)
    \/ Tick
    \/ LoadStart("partners")
    \/ \E exception \in BOOLEAN : LoadGetObject(exception)
    \/ \E exception \in BOOLEAN : ToSqlReplace(exception)
    \/ \E exception \in BOOLEAN : ToSqlInsert(exception)
    \/ \E exception \in BOOLEAN : ToSqlCommit(exception)
    \/ \E exception \in BOOLEAN : LoadCount(exception)

SpecPartners == Init /\ [][NextPartners]_vars

PartnerRawMatching == {n \in Names(objects.bronze) : contains(n, PartenaireLibrairies)}

PartnerCleanedMatching == {n \in Names(objects.silver) : contains(n, LibrairiesCleaned)}

\* C20: the partners' cleaner reads the raw object whose key is the
\* lexicographic maximum of the partners' keys in the bronze bucket, and the
\* partners' load reads the cleaned object whose key is the lexicographic
\* maximum of the cleaned partners' keys, whatever the order in which the
\* objects were uploaded.
C20_PartnersLatestIsLexicographicMax ==
    /\ lakeOut.op = "process_to_silver" /\ lakeOut.result.kind = "cleaned"
           => IsLexicographicMax(lakeOut.result.latest_file, PartnerRawMatching)
    /\ LoadEnded({"loaded", "raised", "caught"}) /\ lakeOut.arg = "partners"
           => IsLexicographicMax(lakeOut.result.file_path, PartnerCleanedMatching)

(***************************************************************************)
(* Views of the warehouse.  Analysts' sessions create views over the       *)
(* tables between two runs; GoldLoader.run drops them all first            *)
(* (clean_all_views), PostgresLoader.load_partners_to_gold                 *)
(* (librairies_to_postgre.py lines 25-62) has no such step.                *)
(***************************************************************************)
View(table) == [viewname |-> "v_" \o table, table |-> table]

CreateView(table) ==
    /\ run = NoRun
    /\ load = NoLoad
    /\ tables[table] # Missing
    /\ tables' = [tables EXCEPT !.pg_views = @ \cup {View(table)}]
    /\ UNCHANGED <<catalogVars, clientVars, reads, aggOut, objects, mtime, load, lakeOut,
                   uploaded, run>>

NextViews ==
    \/ /\ run = NoRun /\ load = NoLoad
       /\ \E df \in RawBatches("books") :
             UploadExport(df, object_path("books", Stamp20240101, DotCsv), FALSE)
    \/ /\ run = NoRun /\ load = NoLoad
       /\ CleanerRun("books", FALSE)
    \/ /\ run = NoRun /\ load = NoLoad
       /\ \E df \in PartnerBatches :
             UploadExport(df, partner_object_path(Stamp20240101), FALSE)
    \/ /\ run = NoRun /\ load = NoLoad
       /\ ProcessToSilver(Num(48))
    \/ \E table \in {"fact_books", "dim_partners"} : CreateView(table)
    \/ GoldRunStart
    \/ \E exception \in BOOLEAN : GoldCleanViews(exception)
    \/ GoldLoadTable
    \/ GoldLoadReturns
    \/ /\ run = NoRun
       /\ LoadStart("partners")
    \/ \E exception \in BOOLEAN : LoadGetObject(exception)
    \/ \E exception \in BOOLEAN : ToSqlReplace(exception)
    \/ \E exception \in BOOLEAN : ToSqlInsert(exception)
    \/ \E exception \in BOOLEAN : ToSqlCommit(exception)
    \/ \E exception \in BOOLEAN : LoadCount(exception)

SpecViews == Init /\ [][NextViews]_vars

\* C21: a load is at the point of replacing its table only when the
\* warehouse holds no view: the views were dropped before the first
\* replace of the run, for GoldLoader.run and for load_partners_to_gold.
C21_NoReplaceWhileViewExists ==
    load # NoLoad /\ load.pc = "to_sql" => tables.pg_views = {}

\* C22: a stage without input does nothing and does not fail.  A cleaner run
\* that finds no .csv object under its prefix returns without an exception
\* and leaves the silver bucket as it is; a load_table call that finds no
\* cleaned object leaves every table as it is, starts no load and reports a
\* skip; after a skip GoldLoader.run goes on with the next domain, or
\* returns after the last.
C22_AbsentInputIsNoOp ==
    [][ /\ ( /\ lakeOut'.op = "run"
             /\ RawMatching(lakeOut'.arg) = {} )
            => /\ lakeOut'.result = NoneResult
               /\ objects' = objects
        /\ ( /\ run.pc = "load_table"
             /\ run'.pc = "wait"
             /\ CleanedMatching(Head(run.todo)) = {} )
            => /\ tables' = tables
               /\ load' = NoLoad
               /\ lakeOut' = [op |-> "load", arg |-> Head(run.todo),
                              result |-> [kind |-> "skip"]]
        /\ ( /\ run.pc = "wait"
             /\ run'.pc # "wait"
             /\ lakeOut.result.kind = "skip" )
            => /\ run'.pc = IF run.todo = <<>> THEN "returned" ELSE "load_table"
               /\ tables' = tables
      ]_vars

\* a run of the loader that returned after it skipped books, for which
\* there was no cleaned object, and loaded quotes
C22_Witness ==
    /\ run.pc = "returned"
    /\ run.kind = "gold"
    /\ run.called = GoldSteps
    /\ CleanedMatching("books") = {}
    /\ tables.fact_books = Missing
    /\ tables.fact_quotes # Missing

(***************************************************************************)
(* Raw books objects with malformed lines: a line with a field too many.   *)
(***************************************************************************)
GoodRow(title) ==
    [title |-> title, price_gbp |-> Num(10),
     availability |-> <<"I", "n", " ", "s", "t", "o", "c", "k">>]

BadRow(title) == GoodRow(title) @@ [extra |-> <<"z">>]

MalformedBatches ==
    {<<GoodRow(<<"a">>)>>,
     <<GoodRow(<<"a">>), BadRow(<<"b">>)>>,
     <<BadRow(<<"b">>), GoodRow(<<"a">>), GoodRow(<<"c">>)>>}

NextMalformed ==
    \/ \E key \in RawKeys("books"), df \in MalformedBatches : UploadExport(df, key, FALSE)
    \/ \E exception \in BOOLEAN : CleanerRun("books", exception)

SpecMalformed == Init /\ [][NextMalformed]_vars

WellFormed(row) == "extra" \notin DOMAIN row

\* C23: when no store call failed, a cleaner run over a raw object that
\* holds well-formed lines writes a cleaned object whose rows are those of
\* the well-formed lines, each malformed line dropped on its own.
C23_MalformedRowsDroppedIndividually ==
    ( /\ lakeOut.op = "run"
      /\ lakeOut.result # [kind |-> "exception", raised |-> "store"]
      /\ RawMatching(lakeOut.arg) # {} )
        => LET raw == get_object(objects.bronze, SortedLast(RawMatching(lakeOut.arg)))
               good == {i \in DOMAIN raw : WellFormed(raw[i])}
           IN  good # {}
                   => /\ lakeOut.result.kind = "cleaned"
                      /\ {lakeOut.result.df_cleaned[i].title :
                             i \in DOMAIN lakeOut.result.df_cleaned}
                            = {raw[i].title : i \in good}

(***************************************************************************)
(* The upload step of the quotes spider (quotes_scraper.py lines 56-73)    *)
(* and of the e-commerce scraper (ecommerce_scraper.py lines 98-101 and    *)
(* 130-141).  The object name is made of the domain and of the wall clock  *)
(* formatted by strftime('%Y%m%d_%H%M%S'), to the second, and of nothing   *)
(* else; upload_csv stores under that name with put_object.  The clock is  *)
(* the variable now, counted in seconds from 2024-01-01 00:00:00.          *)
(***************************************************************************)
Digits == <<"0", "1", "2", "3", "4", "5", "6", "7", "8", "9">>

strftime(t) ==
    <<"2", "0", "2", "4", "0", "1", "0", "1", "_", "0", "0", "0", "0",
      Digits[((t % 60) \div 10) + 1], Digits[(t % 10) + 1]>>

QuoteRow(text) == [text |-> text, author |-> <<"x">>, tags |-> <<"t">>]

ScrapedBatches == {<<>>, <<QuoteRow(<<"a">>)>>, <<QuoteRow(<<"b">>)>>}

\* upload_to_minio of the quotes spider: nothing is written without data
upload_to_minio(all_quotes, s3error) ==
    IF all_quotes = <<>>
    THEN /\ lakeOut' = [op |-> "upload_to_minio", arg |-> <<>>, result |-> NoneResult]
         /\ UNCHANGED <<catalogVars, clientVars, reads, aggOut, objects, mtime,
                        tables, load, uploaded, run>>
    ELSE UploadExport(all_quotes, object_path("quotes", strftime(now), DotCsv), s3error)

\* scrape_all_and_upload of the e-commerce scraper, from line 98 on
scrape_all_and_upload(all_products, s3error) ==
    IF all_products = <<>>
    THEN /\ lakeOut' = [op |-> "scrape_all_and_upload", arg |-> <<>>,
                        result |-> NoneResult]
         /\ UNCHANGED <<catalogVars, clientVars, reads, aggOut, objects, mtime,
                        tables, load, uploaded, run>>
    ELSE UploadExport(all_products, object_path("ecommerce", strftime(now), DotCsv),
                      s3error)

NextIngest ==
    \/ Tick
    \/ \E data \in ScrapedBatches, s3error \in BOOLEAN : upload_to_minio(data, s3error)
    \/ \E data \in ScrapedBatches, s3error \in BOOLEAN :
          scrape_all_and_upload(data, s3error)

SpecIngest == Init /\ [][NextIngest]_vars

\* C24: no ingestion run writes a raw key that an earlier run wrote, and
\* the bronze bucket holds as many raw objects as there were uploads.
C24_RawObjectsImmutable ==
    /\ \A k \in DOMAIN uploaded : uploaded[k].previous = <<>>
    /\ Cardinality(objects.bronze) = mtime

(***************************************************************************)
(* A crawl of the books spider (books_scraper.py lines 28-85) or of the    *)
(* quotes spider (quotes_scraper.py lines 26-73).  __init__ sets           *)
(* page_count to 0 and the record list to empty, and the first request is  *)
(* the start URL.  parse is called with each response whose status is 200  *)
(* or one of HTTPERROR_ALLOWED_CODES (404, 500, 503): on a status other    *)
(* than 200 it logs and returns, which leaves the crawl without a pending  *)
(* request; otherwise it appends the page's records, counts the page and   *)
(* either follows the next page or calls upload_to_minio.  The crawl is    *)
(* held in the variable run.  MaxPages is scraper_config.max_pages.        *)
(***************************************************************************)
MaxPages == 2

\* crawls started one after the other in one behaviour
MaxCrawls == 3

\* the number of crawls started so far
Crawls == IF run.pc = "idle" THEN 0 ELSE run.crawl

Spiders == {"books", "quotes"}

Statuses == {200, 404, 500, 503}

Uuid8s == {<<"u", "1">>, <<"u", "2">>}

\* the records one page yields
PageItems(spider) ==
    IF spider = "books"
    THEN {<<>>, <<GoodRow(<<"a">>)>>}
    ELSE {<<>>, <<QuoteRow(<<"a">>)>>}

\* books_scraper.py lines 77-79, quotes_scraper.py lines 63-65
CrawlObjectPath(spider, t, uuid8) ==
    IF spider = "books"
    THEN object_path("books", strftime(t) \o <<"_">> \o uuid8, DotCsv)
    ELSE object_path("quotes", strftime(t), DotCsv)

CrawlStart(spider) ==
    /\ run.pc \in {"idle", "closed"}
    /\ Crawls < MaxCrawls
    /\ run' = [kind |-> "crawl", spider |-> spider, pc |-> "requested",
               crawl |-> Crawls + 1,
               page_count |-> 0, all |-> <<>>, written |-> 0, s3error |-> FALSE]
    /\ UNCHANGED <<catalogVars, clientVars, reads, aggOut, objects, mtime, tables,
                   load, lakeOut, uploaded>>

\* parse(response) with a status other than 200: lines 37-39
ParseHttpError(status) ==
    /\ run.pc = "requested"
    /\ status # 200
    /\ run' = [run EXCEPT !.pc = "closed"]
    /\ UNCHANGED <<catalogVars, clientVars, reads, aggOut, objects, mtime, tables,
                   load, lakeOut, uploaded>>

\* parse(response) with status 200 that follows the next page
ParseFollow(items) ==
    /\ run.pc = "requested"
    /\ run.page_count + 1 < MaxPages
    /\ run' = [run EXCEPT !.all = @ \o items, !.page_count = @ + 1]
    /\ UNCHANGED <<catalogVars, clientVars, reads, aggOut, objects, mtime, tables,
                   load, lakeOut, uploaded>>

\* parse(response) with status 200 on the last page (no next link, or
\* max_pages reached): upload_to_minio is called
ParseUpload(items, next_page, uuid8, s3error) ==
    /\ run.pc = "requested"
    /\ ~(next_page /\ run.page_count + 1 < MaxPages)
    /\ LET all == run.all \o items
           filename == CrawlObjectPath(run.spider, now, uuid8)
           stored == all # <<>> /\ ~s3error
       IN  /\ run' = [run EXCEPT !.all = all, !.page_count = @ + 1, !.pc = "closed",
                                 !.written = IF stored THEN @ + 1 ELSE @,
                                 !.s3error = all # <<>> /\ s3error]
           /\ IF stored
              THEN /\ objects' = [objects EXCEPT
                                     !.bronze = put_object(@, filename, all, mtime + 1)]
                   /\ mtime' = mtime + 1
                   /\ uploaded' = Uploaded(uploaded, filename, all)
                   /\ lakeOut' = [op |-> "upload_to_minio", arg |-> filename,
                                  result |-> Uri("bronze", filename)]
              ELSE /\ lakeOut' = [op |-> "upload_to_minio", arg |-> filename,
                                  result |-> NoneResult]
                   /\ UNCHANGED <<objects, mtime, uploaded>>
    /\ UNCHANGED <<catalogVars, clientVars, reads, aggOut, tables, load>>

NextCrawl ==
    \/ \E spider \in Spiders : CrawlStart(spider)
    \/ \E status \in Statuses : ParseHttpError(status)
    \/ \E spider \in Spiders : \E items \in PageItems(spider) :
          run.pc = "requested" /\ run.spider = spider /\ ParseFollow(items)
    \/ \E spider \in Spiders : \E items \in PageItems(spider) :
          \E next_page \in BOOLEAN, uuid8 \in Uuid8s, s3error \in BOOLEAN :
             /\ run.pc = "requested"
             /\ run.spider = spider
             /\ ParseUpload(items, next_page, uuid8, s3error)

SpecCrawl == Init /\ [][NextCrawl]_vars

\* C25: a crawl that has ended with at least one record extracted, and
\* whose upload the store did not refuse, has written exactly one raw
\* object, whatever statuses its pages came with.
C25_CrawlWritesOneObject ==
    ( /\ run.pc = "closed"
      /\ run.all # <<>>
      /\ ~run.s3error )
        => run.written = 1

(***************************************************************************)
(* EcommerceScraper._parse_price(text), ecommerce_scraper.py lines 77-80:  *)
(* the commas are removed, re.search(r"[\d.]+") finds the first longest    *)
(* run of digits and dots, and float() converts that run; without a match  *)
(* the result is 0.0.  float() takes a run with at least one digit and at  *)
(* most one dot and raises ValueError on any other run.  A float is held   *)
(* as its decimal digits and the count of digits behind the point, with    *)
(* the trailing zeros behind the point removed.                            *)
(***************************************************************************)
MaxText == 3

PriceChars == {"0", "2", ".", ",", "$"}

DigitChars == {"0", "1", "2", "3", "4", "5", "6", "7", "8", "9"}

TextsUpTo(n) == UNION {[1..k -> PriceChars] : k \in 0..n}

TestTexts ==
    {<<"$", "1", ",", "2", "9", "9", ".", "0", "0">>, <<"P", "r", "i", "c", "e", ":", " ", "$", "4", "2">>, <<>>, <<"N", "/", "A">>, <<"F", "r", "e", "e">>}

\* str.replace(",", "")
RECURSIVE remove_commas(_)
remove_commas(text) ==
    IF text = <<>> THEN <<>>
    ELSE IF Head(text) = "," THEN remove_commas(Tail(text))
    ELSE <<Head(text)>> \o remove_commas(Tail(text))

\* re.search(r"[\d.]+", text): the matched run, or <<>> without a match
re_search_number(text) ==
    LET inClass(i) == text[i] \in DigitChars \cup {"."}
        starts == {i \in DOMAIN text : inClass(i)}
    IN  IF starts = {} THEN <<>>
        ELSE LET first == CHOOSE i \in starts : \A j \in starts : i <= j
                 last == CHOOSE j \in first..Len(text) :
                            /\ \A k \in first..j : inClass(k)
                            /\ j = Len(text) \/ ~inClass(j + 1)
             IN  SubSeq(text, first, last)

DigitValue(c) == CHOOSE d \in 0..9 : Digits[d + 1] = c

RECURSIVE DigitsValue(_)
DigitsValue(ds) ==
    IF ds = <<>> THEN 0
    ELSE 10 * DigitsValue(SubSeq(ds, 1, Len(ds) - 1)) + DigitValue(ds[Len(ds)])

RECURSIVE Normalised(_, _)
Normalised(mantissa, decimals) ==
    IF decimals > 0 /\ mantissa % 10 = 0
    THEN Normalised(mantissa \div 10, decimals - 1)
    ELSE [kind |-> "float", mantissa |-> mantissa, decimals |-> decimals]

\* float(s) for a run s of digits and dots
float(s) ==
    LET dots == {i \in DOMAIN s : s[i] = "."}
        digits == SelectSeq(s, LAMBDA c : c # ".")
    IN  IF Cardinality(dots) > 1 \/ digits = <<>>
        THEN [kind |-> "ValueError"]
        ELSE LET decimals == IF dots = {} THEN 0
                             ELSE Len(s) - (CHOOSE i \in dots : TRUE)
             IN  Normalised(DigitsValue(digits), decimals)

Float(mantissa, decimals) == Normalised(mantissa, decimals)

parse_price(text) ==
    LET match == re_search_number(remove_commas(text))
    IN  IF match # <<>> THEN float(match) ELSE Float(0, 0)

ParsePrice(text) ==
    /\ lakeOut' = [op |-> "_parse_price", arg |-> text, result |-> parse_price(text)]
    /\ UNCHANGED <<catalogVars, clientVars, reads, aggOut, objects, mtime, tables,
                   load, uploaded, run>>

NextPrice == \E text \in TextsUpTo(MaxText) \cup TestTexts : ParsePrice(text)

SpecPrice == Init /\ [][NextPrice]_vars

\* C26: _parse_price returns a float for every text, never raises, and
\* returns 0.0 for a text without a digit.
C26_ParsePriceAlwaysFloat ==
    lakeOut.op = "_parse_price"
        => /\ lakeOut.result.kind = "float"
           /\ (\A i \in DOMAIN lakeOut.arg : lakeOut.arg[i] \notin DigitChars)
                  => lakeOut.result = Float(0, 0)

\* the values of test_parse_price_valid and test_parse_price_invalid
ParsePriceExamples ==
    /\ parse_price(<<"$", "1", ",", "2", "9", "9", ".", "0", "0">>) = Float(1299, 0)
    /\ parse_price(<<"P", "r", "i", "c", "e", ":", " ", "$", "4", "2">>) = Float(42, 0)
    /\ parse_price(<<>>) = Float(0, 0)
    /\ parse_price(<<"N", "/", "A">>) = Float(0, 0)
    /\ parse_price(<<"F", "r", "e", "e">>) = Float(0, 0)

(***************************************************************************)
(* BooksCleaner.clean_data (clean_books.py lines 15-33) applied to a batch *)
(* and then to its own output.  The batches hold the availability texts    *)
(* the lambda of lines 26-28 tells apart: one with "stock" in it, one      *)
(* without, and a missing cell.                                            *)
(***************************************************************************)
AvailabilityTexts ==
    {<<"I", "n", " ", "s", "t", "o", "c", "k">>, <<"S", "o", "l", "d">>, NaN}

AvailabilityRows ==
    {[title |-> title, price_gbp |-> Num(10), availability |-> availability] :
        title \in {<<"a">>, <<"b">>}, availability \in AvailabilityTexts}

InitReclean ==
    /\ products = <<>>
    /\ price_history = <<>>
    /\ scraping_logs = <<>>
    /\ nextId = 1
    /\ now = 0
    /\ lastUpsert = [k \in Keys |-> NoUpsert]
    /\ pc = [c \in Clients |-> "idle"]
    /\ arg = [c \in Clients |-> <<>>]
    /\ ret = [c \in Clients |-> NotCalled]
    /\ reads = <<>>
    /\ aggOut = NoCall
    /\ objects = [bronze |-> {}, silver |-> {}]
    /\ mtime = 0
    /\ tables = NoTables
    /\ load = NoLoad
    /\ uploaded = <<>>
    /\ run = NoRun
    /\ \E df \in SeqsUpTo(AvailabilityRows, MaxRows) :
           lakeOut = [op |-> "read_csv", arg |-> "books", result |-> df]

\* clean_data applied to the output of clean_data
CleanDataAgain ==
    /\ lakeOut.op = "clean_data"
    /\ lakeOut' = [op |-> "clean_data_again", arg |-> lakeOut.arg,
                   result |-> [df |-> lakeOut.result.df_cleaned,
                               df_cleaned |-> BooksCleanData(lakeOut.result.df_cleaned,
                                                             now)]]
    /\ UNCHANGED <<catalogVars, clientVars, reads, aggOut, objects, mtime, tables,
                   load, uploaded, run>>

NextReclean ==
    \/ CleanData("books")
    \/ CleanDataAgain

SpecReclean == InitReclean /\ [][NextReclean]_vars

\* C27: clean_data outputs only the availability values "In Stock" and
\* "Out of Stock", and cleaning its own output leaves the availability of
\* every row as it was.
C27_AvailabilityIdempotent ==
    /\ lakeOut.op \in {"clean_data", "clean_data_again"}
           => \A i \in DOMAIN lakeOut.result.df_cleaned :
                 lakeOut.result.df_cleaned[i].availability \in {InStock, OutOfStock}
    /\ lakeOut.op = "clean_data_again"
           => /\ Len(lakeOut.result.df_cleaned) = Len(lakeOut.result.df)
              /\ \A i \in DOMAIN lakeOut.result.df_cleaned :
                    lakeOut.result.df_cleaned[i].availability
                        = lakeOut.result.df[i].availability

\* the first half of C27 alone: the output is within the enumeration
AvailabilityInEnumeration ==
    lakeOut.op \in {"clean_data", "clean_data_again"}
        => \A i \in DOMAIN lakeOut.result.df_cleaned :
              lakeOut.result.df_cleaned[i].availability \in {InStock, OutOfStock}

(***************************************************************************)
(* process_product called product after product on one pipeline object     *)
(* (pipeline.py lines 70-76 for the fresh stats, 88-138 for the call).     *)
(* The products are those of the scraper: the sku is the one to_dict       *)
(* derives from the title.                                                 *)
(***************************************************************************)
ProcessInputs ==
    {ProductDict(t, c, Num(10), Num(3), sku(t), Null) : t \in Titles, c \in Categories}

\* process_product calls made in one behaviour
MaxCalls == 3

\* every call ends with one more product counted or one more error
Calls == IF run.pc = "idle" THEN 0
         ELSE run.stats.products_scraped + Len(run.stats.errors)

CallProcessProduct(product) ==
    /\ \/ run.pc = "idle"
       \/ run.pc = "for" /\ run.kind = "pipeline" /\ run.products = <<>>
    /\ Calls < MaxCalls
    /\ run' = IF run.pc = "idle"
              THEN [kind |-> "pipeline", pc |-> "for", categories |-> {}, urls |-> <<>>,
                    products |-> <<product>>, scraped |-> <<>>,
                    stats |-> [products_scraped |-> 0, errors |-> <<>>],
                    upserts |-> [stored |-> 0, failed |-> 0],
                    e |-> ErrorOf("", "")]
              ELSE [run EXCEPT !.products = <<product>>]
    /\ UNCHANGED <<catalogVars, clientVars, reads, aggOut, objects, mtime, tables, load,
                   lakeOut, uploaded>>

NextProcess ==
    \/ \E product \in ProcessInputs : CallProcessProduct(product)
    \/ \E failure \in ProcessFailures : ProcessProduct(failure)

SpecProcess == Init /\ [][NextProcess]_vars

\* C28: between two process_product calls, stats["products_scraped"] is the
\* number of products whose upsert the store applied, and stats["errors"]
\* holds an entry for every call whose upsert the store did not apply.
C28_ScrapedCountsStoredUpserts ==
    ( /\ run.pc = "for"
      /\ run.kind = "pipeline"
      /\ run.products = <<>> )
        => /\ run.stats.products_scraped = run.upserts.stored
           /\ Len(run.stats.errors) >= run.upserts.failed

\* the part of C28 about the calls whose upsert the store refused, alone
C28_FailedUpsertIsAnError ==
    ( /\ run.pc = "for"
      /\ run.kind = "pipeline"
      /\ run.products = <<>> )
        => Len(run.stats.errors) >= run.upserts.failed

(***************************************************************************)
(* upsert_product called with the dicts the scraper makes (to_dict,        *)
(* ecommerce_scraper.py lines 39-42: the sku is derived from the title     *)
(* alone), one call at a time, with the call and what it returned kept in  *)
(* lakeOut.                                                                *)
(***************************************************************************)
UpsertScraped(product) ==
    LET w == update_one(products, nextId, Filter(product), Stamped(product, now))
    IN  /\ w.nid <= MaxDocs + 1
        /\ products' = w.coll
        /\ nextId' = w.nid
        /\ lastUpsert' = Applied(w, product, lastUpsert)
        /\ lakeOut' = [op |-> "upsert_product", arg |-> product,
                       result |-> UpsertReturn(w)]
        /\ UNCHANGED <<price_history, scraping_logs, now, clientVars, reads, aggOut,
                       objects, mtime, tables, load, uploaded, run>>

NextSku ==
    \/ \E product \in ProcessInputs : UpsertScraped(product)
    \/ \E id \in 1 .. MaxDocs : DeleteProduct(id)
    \/ DeleteAllProducts

SpecSku == Init /\ [][NextSku]_vars

\* C29: an upsert of a scraped product (sku derived from its title) is
\* never refused, and the catalog then holds a document with the product's
\* title and category, also when a product with the same title and another
\* category is stored.
C29_SkuIndexNeverRejects ==
    lakeOut.op = "upsert_product"
        => /\ lakeOut.result # None
           /\ \E i \in DOMAIN products : Matches(products[i], Filter(lakeOut.arg))

(***************************************************************************)
(* The partners' cleaner over workbooks that differ in their contact       *)
(* columns: PartnerCleaner.process_to_silver, librairies_geo.py lines      *)
(* 41-75, with apply_rgpd of lines 30-39.  One workbook has no contact     *)
(* column at all.                                                          *)
(***************************************************************************)
ContactRow(contact_nom, contact_email, contact_telephone) ==
    [nom |-> <<"l", "1">>, adresse |-> <<"r", "u", "e">>, contact_nom |-> contact_nom,
     contact_email |-> contact_email, contact_telephone |-> contact_telephone]

ContactBatches ==
    {<<ContactRow(<<"n">>, <<"e", "1">>, <<"0", "1">>)>>,
     <<ContactRow(<<"m">>, <<"e", "1">>, <<"0", "2">>)>>,
     <<ContactRow(<<"n">>, NaN, <<"0", "1">>),
       ContactRow(<<"m">>, <<"e", "2">>, <<"0", "2">>)>>,
     <<[nom |-> <<"l", "1">>, adresse |-> <<"r", "u", "e">>]>>}

NextRgpd ==
    \/ \E df \in ContactBatches :
          UploadExport(df, partner_object_path(Stamp20240101), FALSE)
    \/ \E lat_lon \in {Null, Num(48)} : ProcessToSilver(lat_lon)
    \/ Tick

SpecRgpd == Init /\ [][NextRgpd]_vars

ContactColumns == {"contact_nom", "contact_email", "contact_telephone"}

ContactValues == {<<"n">>, <<"m">>, <<"0", "1">>, <<"0", "2">>}

\* row r with other values in its contact_nom and contact_telephone cells
WithContact(r, contact_nom, contact_telephone) ==
    [c \in DOMAIN r |->
        IF c = "contact_nom" THEN contact_nom
        ELSE IF c = "contact_telephone" THEN contact_telephone
        ELSE r[c]]

\* C30: no row of a cleaned partners object has a contact_nom,
\* contact_email or contact_telephone cell, and the object the cleaner
\* wrote is the one it would have written from the same workbook with any
\* other values of contact_nom and contact_telephone.
C30_CleanedPartnersHoldNoContact ==
    /\ \A o \in objects.silver :
          contains(o.name, LibrairiesCleaned)
              => \A i \in DOMAIN o.data : DOMAIN o.data[i] \cap ContactColumns = {}
    /\ ( /\ lakeOut.op = "process_to_silver"
         /\ lakeOut.result.kind = "cleaned" )
           => LET df == lakeOut.result.df
                  out == lakeOut.result.df_cleaned
              IN  /\ get_object(objects.silver, lakeOut.result.silver_path) = to_csv(out)
                  /\ DOMAIN out = DOMAIN df
                  /\ \A i \in DOMAIN df :
                        \A contact_nom \in ContactValues, contact_telephone \in ContactValues :
                            PartnerCleanRow(WithContact(df[i], contact_nom,
                                                        contact_telephone),
                                            out[i].lat) = out[i]

\* a cleaned object was written from a workbook that holds the three
\* contact columns
C30_Witness ==
    /\ lakeOut.op = "process_to_silver"
    /\ lakeOut.result.kind = "cleaned"
    /\ \E i \in DOMAIN lakeOut.result.df : ContactColumns \subseteq DOMAIN lakeOut.result.df[i]
    /\ lakeOut.result.silver_path \in Names(objects.silver)
    /\ get_object(objects.silver, lakeOut.result.silver_path) # <<>>

====
